---- MODULE Spec2Model ----
(***************************************************************************)
(* CLIProxyAPIPlus.  The FingerprintManager of package kiro                *)
(* (GetFingerprint, SetConfig; see the section on it below), and the       *)
(* request normalisation of the two Gemini-protocol translators            *)
(*   ConvertGeminiRequestToAntigravity (internal/translator/antigravity/   *)
(*     gemini/antigravity_gemini_request.go) and                           *)
(*   ConvertGeminiRequestToGemini (internal/translator/gemini/gemini/      *)
(*     gemini_gemini_request.go).                                          *)
(*                                                                         *)
(* A conversation is a sequence of turns [role, parts]; a part is the JSON *)
(* object of the wire format reduced to the keys the translators read:     *)
(*   kind             which of text / functionCall / functionResponse the  *)
(*                    part carries,                                        *)
(*   name, id         functionCall.name / .id or functionResponse.name/.id,*)
(*   text             the "text" key (a sequence of string tokens, <<>>    *)
(*                    when absent or empty),                               *)
(*   thought          the "thought" flag,                                  *)
(*   thoughtSignature the "thoughtSignature" key (a sequence of            *)
(*                    characters, <<>> when absent or empty),              *)
(*   hasThoughtSignature  whether the "thoughtSignature" key exists: it    *)
(*                    may exist and hold the empty string.                 *)
(* The other keys of the payload (tools, generationConfig,                 *)
(* system_instruction, safetySettings, model) are its rest: a JSON object  *)
(* is the function from the keys present to their values, a JSON array a   *)
(* sequence.  A translator returns bytes: ok says that they are not empty, *)
(* contents and rest are the document they hold.                           *)
(*                                                                         *)
(* An id is <<>> (absent or ""), <<"A">> (sent by the client) or           *)
(* <<"toolu_", n>>: the n-th identifier drawn by generateToolID in the     *)
(* call; two draws of 12 random bytes are taken to differ, and to differ   *)
(* from every client id.                                                   *)
(***************************************************************************)
EXTENDS Integers, Sequences, FiniteSets, TLC

VARIABLES
    pc,         \* "start": request received; "done": a translator has returned
    input,      \* the inbound payload [hasContents, contents, rest]
    fn,         \* the translator that ran: "none", "antigravity", "gemini"
    modelName,  \* the model identifier handed to it (a sequence of characters)
    trace,      \* the stages it ran, in order: <<[stage, contents], ...>>
    output,     \* what it returned: [ok, contents, rest]
    running,    \* the translator calls running side by side, each with its
                \* position and its local variables
    fm,         \* the FingerprintManager: [mu, fingerprints, config]
    goroutine,  \* the goroutines calling it, each with its position and
                \* its local variables
    heap,       \* the Fingerprint objects allocated; a pointer is an index
    history,    \* epoch: the SetConfig calls that have taken effect;
                \* returned: <<tokenKey, pointer>> of every GetFingerprint
                \* call that began and returned since the last of them
    goos,       \* runtime.GOOS of the process
    managers,   \* FingerprintManager instances of one process, with the
                \* content of their fingerprints: [fingerprints, rng, config]
    accountKeys,\* the GetAccountKey calls made: <<[clientID, refreshToken,
                \* key], ...>>
    grouper,    \* fixCLIToolResponse taken one iteration at a time: its
                \* position and its local variables
    rm,         \* the global RefreshManager: [mu, refresher, ctx, cancel,
                \* started, onTokenRefreshed]
    callers,    \* the goroutines calling it, each with its position
    refreshers, \* the BackgroundRefresher objects created, each with the
                \* calls it has received; a pointer is an index
    contexts,   \* the contexts created by context.WithCancel, each with
                \* the number of calls of its cancel function
    journal     \* the method bodies run under rm.mu, in order, each with
                \* the manager and its objects before and after

single == <<pc, input, fn, modelName, trace, output>>
kiro == <<fm, goroutine, heap, history>>
accounts == <<goos, managers, accountKeys>>
refreshing == <<rm, callers, refreshers, contexts, journal>>
vars == <<pc, input, fn, modelName, trace, output, running,
          fm, goroutine, heap, history, goos, managers, accountKeys, grouper,
          rm, callers, refreshers, contexts, journal>>

----------------------------------------------------------------------------
(* Bounds of the checked inputs *)

MaxTurns == 3
MaxParts == 2
ToolTurns == 3
ToolParts == 4
ConcurrentTurns == 2
MaxFingerprints == 3
MaxConfigs == 1
MaxTools == 2
FamilyTurns == 2
FamilyParts == 3
MaxDecls == 2
LinkTurns == 3
GroupTurns == 3
MaxSets == 2
MaxKeyCalls == 2
MaxRefreshCalls == 3

(* Program constants *)

MinSigLen == 50

----------------------------------------------------------------------------
(* Values *)

NoId == <<>>
NoText == <<>>
NoSig == <<>>

skipSentinel ==
    << "s","k","i","p","_","t","h","o","u","g","h","t","_",
       "s","i","g","n","a","t","u","r","e","_",
       "v","a","l","i","d","a","t","o","r" >>

Part(kind, name, id, text, thought, sig) ==
    [kind |-> kind, name |-> name, id |-> id, text |-> text,
     thought |-> thought, thoughtSignature |-> sig,
     hasThoughtSignature |-> sig # NoSig]

\* the part with the key "thoughtSignature": "" added
EmptySignature(part) == [part EXCEPT !.hasThoughtSignature = TRUE]

\* sjson.SetBytes(..., "<part>.thoughtSignature", sig)
SetSignature(part, sig) ==
    [part EXCEPT !.thoughtSignature = sig, !.hasThoughtSignature = TRUE]

TextPart(text) == Part("text", "", NoId, text, FALSE, NoSig)
FunctionCall(name, id) == Part("functionCall", name, id, NoText, FALSE, NoSig)
FunctionResponse(name, id) == Part("functionResponse", name, id, NoText, FALSE, NoSig)

Content(role, parts) == [role |-> role, parts |-> parts]

HasFunctionCall(part) == part.kind = "functionCall"
HasFunctionResponse(part) == part.kind = "functionResponse"

\* the scan begun at the oldest group
Max_Oldest(S) == CHOOSE x \in S : \A y \in S : x <= y

Max(S) == CHOOSE x \in S : \A y \in S : y <= x

\* Go maps: a missing key reads as the zero value
Count(m, k) == IF k \in DOMAIN m THEN m[k] ELSE 0
Put(m, k, v) == [x \in (DOMAIN m) \cup {k} |-> IF x = k THEN v ELSE m[x]]
EmptyMap == [x \in {} |-> 0]

\* strings.Contains on sequences of characters
Contains(s, sub) ==
    \E i \in 1..(Len(s) - Len(sub) + 1) : SubSeq(s, i, i + Len(sub) - 1) = sub

RECURSIVE Concat(_)
Concat(ss) == IF ss = <<>> THEN <<>> ELSE Head(ss) \o Concat(Tail(ss))

generateToolID(n) == <<"toolu_", n>>

\* the test inverted: no part is ever found to lack an id
MissingId_Never(part) == FALSE

\* the test dropped: every part is taken to lack an id
MissingId_Always(part) == TRUE

\* !part.Get("<kind>.id").Exists() || part.Get("<kind>.id").String() == ""
MissingId(part) == part.id = NoId

\* ids tracked by function name alone
callKey_NameOnly(name, index) == <<name, 0>>

\* the key of toolIDMap: callKey{name, index}
callKey(name, index) == <<name, index>>

----------------------------------------------------------------------------
(* fixCLIToolResponse: the Conversation Grouper *)

\* a part for which functionResponse exists is a JSON object, so the raw
\* part is returned as it is (line 253); the fallback needs a non-object
parseFunctionResponseRaw(response) == response

\* each response set at the front of parts instead of appended ("parts.-1")
functionResponseContent_Prepended(groupResponses) ==
    Content("function",
            [i \in 1..Len(groupResponses) |->
                parseFunctionResponseRaw(
                    groupResponses[Len(groupResponses) + 1 - i])])

functionResponseContent(groupResponses) ==
    Content("function",
            [i \in 1..Len(groupResponses) |->
                parseFunctionResponseRaw(groupResponses[i])])

NewGrouping ==
    [contents |-> <<>>, pendingGroups |-> <<>>, collectedResponses |-> <<>>]

\* &FunctionCallGroup{ResponsesNeeded: functionCallsCount}: a pointer, told
\* from the others by the place in contents of the model turn it was
\* allocated for
FunctionCallGroup(functionCallsCount, place) ==
    [ResponsesNeeded |-> functionCallsCount, place |-> place]

RemoveAt(s, i) == SubSeq(s, 1, i - 1) \o SubSeq(s, i + 1, Len(s))

\* the needed responses taken from the back of the buffer
TakeResponses_FromBack(st, needed) ==
    [st EXCEPT
        !.contents = Append(@, functionResponseContent(
                                   SubSeq(st.collectedResponses,
                                          Len(st.collectedResponses) - needed + 1,
                                          Len(st.collectedResponses)))),
        !.collectedResponses = SubSeq(@, 1, Len(@) - needed)]

\* take the needed responses from the front and emit the merged content
TakeResponses(st, needed) ==
    [st EXCEPT
        !.contents = Append(@, functionResponseContent(
                                   SubSeq(st.collectedResponses, 1, needed))),
        !.collectedResponses = SubSeq(@, needed + 1, Len(@))]

\* a group satisfied only by more responses than it needs
SatisfiableGroups_MoreThanNeeded(st) ==
    {i \in 1..Len(st.pendingGroups) :
        Len(st.collectedResponses) > st.pendingGroups[i].ResponsesNeeded}

\* line 324: len(collectedResponses) >= group.ResponsesNeeded
SatisfiableGroups(st) ==
    {i \in 1..Len(st.pendingGroups) :
        Len(st.collectedResponses) >= st.pendingGroups[i].ResponsesNeeded}

\* the loop without its break: every group the buffer satisfies is closed,
\* newest first
RECURSIVE SatisfyNewestGroup_NoBreak(_)
SatisfyNewestGroup_NoBreak(st) ==
    IF SatisfiableGroups(st) = {} THEN st
    ELSE LET i == Max(SatisfiableGroups(st))
         IN SatisfyNewestGroup_NoBreak(
              [TakeResponses(st, st.pendingGroups[i].ResponsesNeeded)
                  EXCEPT !.pendingGroups = RemoveAt(@, i)])

\* the loop of lines 322..346: newest group first, at most one group, break
SatisfyNewestGroup(st) ==
    IF SatisfiableGroups(st) = {} THEN st
    ELSE LET i == Max(SatisfiableGroups(st))
         IN [TakeResponses(st, st.pendingGroups[i].ResponsesNeeded)
                EXCEPT !.pendingGroups = RemoveAt(@, i)]

\* lines 309..315: the functionResponse parts of a content
responsePartsIn(value) == SelectSeq(value.parts, HasFunctionResponse)

\* the responses of the turn put in front of the buffer
CollectResponses_InFront(st, value) ==
    [st EXCEPT !.collectedResponses = responsePartsIn(value) \o @]

\* line 318: collectedResponses = append(collectedResponses, ...)
CollectResponses(st, value) ==
    [st EXCEPT !.collectedResponses = @ \o responsePartsIn(value)]

\* the group created, the model turn that calls not appended
GroupContent_CallTurnNotAppended(st, value) ==
    LET responsePartsInThisContent == responsePartsIn(value)
        functionCallsCount == Len(SelectSeq(value.parts, HasFunctionCall))
    IN  IF Len(responsePartsInThisContent) > 0
        THEN SatisfyNewestGroup(CollectResponses(st, value))
        ELSE IF value.role = "model" /\ functionCallsCount > 0
        THEN [st EXCEPT !.pendingGroups =
                            Append(@, FunctionCallGroup(functionCallsCount,
                                                        Len(st.contents) + 1))]
        ELSE [st EXCEPT !.contents = Append(@, value)]

\* one iteration of contents.ForEach (lines 304..392)
GroupContent(st, value) ==
    LET responsePartsInThisContent == responsePartsIn(value)
        functionCallsCount == Len(SelectSeq(value.parts, HasFunctionCall))
    IN  IF Len(responsePartsInThisContent) > 0
        THEN SatisfyNewestGroup(CollectResponses(st, value))
        ELSE IF value.role = "model" /\ functionCallsCount > 0
        THEN [st EXCEPT !.contents = Append(@, value),
                        !.pendingGroups =
                            Append(@, FunctionCallGroup(functionCallsCount,
                                                        Len(st.contents) + 1))]
        ELSE [st EXCEPT !.contents = Append(@, value)]

RECURSIVE GroupContents(_, _, _)
GroupContents(st, contents, idx) ==
    IF idx > Len(contents) THEN st
    ELSE GroupContents(GroupContent(st, contents[idx]), contents, idx + 1)

\* the flush left out
FlushGroup_Skipped(st, i) == st

\* lines 395..411: one iteration of the flush, on the i-th group pending
FlushGroup(st, i) ==
    IF Len(st.collectedResponses) >= st.pendingGroups[i].ResponsesNeeded
    THEN TakeResponses(st, st.pendingGroups[i].ResponsesNeeded)
    ELSE st

\* lines 395..412: the groups still pending, oldest first, none removed
RECURSIVE FlushGroups(_, _)
FlushGroups(st, i) ==
    IF i > Len(st.pendingGroups) THEN st
    ELSE FlushGroups(FlushGroup(st, i), i + 1)

fixCLIToolResponse(contents) ==
    FlushGroups(GroupContents(NewGrouping, contents, 1), 1).contents

----------------------------------------------------------------------------
(* The Role Normalizer (antigravity lines 63..88, gemini lines 59..85) *)

\* the default role given whatever came before
InferRole_AlwaysUser(prevRole) == "user"

InferRole(prevRole) ==
    IF prevRole = "" THEN "user"
    ELSE IF prevRole = "user" THEN "model"
    ELSE "user"

\* alternation forced on every turn
NeedsRole_Always(role) == TRUE

\* the grouper's role accepted as a valid one
NeedsRole_FunctionValid(role) ==
    role = "" \/ ~(role = "user" \/ role = "model" \/ role = "function")

\* role == "" || !valid, valid being role == "user" || role == "model"
NeedsRole(role) == role = "" \/ ~(role = "user" \/ role = "model")

RECURSIVE NormalizeRolesFrom(_, _, _)
NormalizeRolesFrom(contents, idx, prevRole) ==
    IF idx > Len(contents) THEN contents
    ELSE LET role == contents[idx].role
             newRole == IF NeedsRole(role) THEN InferRole(prevRole) ELSE role
         IN NormalizeRolesFrom([contents EXCEPT ![idx].role = newRole],
                               idx + 1, newRole)

NormalizeRoles(contents) == NormalizeRolesFrom(contents, 1, "")

----------------------------------------------------------------------------
(* The Prefill Adapter (antigravity lines 90..138) *)

claude == <<"c", "l", "a", "u", "d", "e">>

\* strings.ToLower, as the letter-case-blind test would use it
lowerCase ==
    [A |-> "a", B |-> "b", C |-> "c", D |-> "d", E |-> "e", F |-> "f",
     G |-> "g", H |-> "h", I |-> "i", J |-> "j", K |-> "k", L |-> "l",
     M |-> "m", N |-> "n", O |-> "o", P |-> "p", Q |-> "q", R |-> "r",
     S |-> "s", T |-> "t", U |-> "u", V |-> "v", W |-> "w", X |-> "x",
     Y |-> "y", Z |-> "z"]

ToLower(s) ==
    [i \in 1..Len(s) |->
        IF s[i] \in DOMAIN lowerCase THEN lowerCase[s[i]] ELSE s[i]]

\* the identifier lower-cased before the test
IsClaude_FoldCase(name) == Contains(ToLower(name), claude)

\* strings.Contains(modelName, "claude")
IsClaude(name) == Contains(name, claude)

HasText(part) == part.text # NoText

\* only the first text kept
prefillTexts_FirstOnly(parts) ==
    LET withText == SelectSeq(parts, HasText)
    IN IF withText = <<>> THEN <<>> ELSE <<withText[1].text>>

prefillTexts(parts) ==
    LET withText == SelectSeq(parts, HasText)
    IN [i \in 1..Len(withText) |-> withText[i].text]

syntheticUser(prefill) ==
    Content("user", <<TextPart(<<"Continue from: ">> \o prefill)>>)

\* the functionCall check left out
AdaptPrefill_NoCallCheck(name, contents) ==
    IF ~IsClaude(name) \/ Len(contents) = 0 THEN contents
    ELSE LET lastContent == contents[Len(contents)]
             removed == SubSeq(contents, 1, Len(contents) - 1)
         IN  IF lastContent.role = "model"
             THEN IF Len(prefillTexts(lastContent.parts)) > 0
                  THEN Append(removed,
                              syntheticUser(Concat(prefillTexts(lastContent.parts))))
                  ELSE removed
             ELSE contents

AdaptPrefill(name, contents) ==
    IF ~IsClaude(name) \/ Len(contents) = 0 THEN contents
    ELSE LET lastContent == contents[Len(contents)]
             hasFunctionCall ==
                 \E i \in 1..Len(lastContent.parts) :
                     HasFunctionCall(lastContent.parts[i])
             removed == SubSeq(contents, 1, Len(contents) - 1)
         IN  IF lastContent.role = "model" /\ ~hasFunctionCall
             THEN IF Len(prefillTexts(lastContent.parts)) > 0
                  THEN Append(removed,
                              syntheticUser(Concat(prefillTexts(lastContent.parts))))
                  ELSE removed
             ELSE contents

----------------------------------------------------------------------------
(* The Tool-Call Linker *)

NewLinking(contents) ==
    [contents |-> contents, callCount |-> EmptyMap, toolIDMap |-> EmptyMap,
     respCount |-> EmptyMap, generated |-> 0]

\* antigravity lines 168..205, for the part at (contentIdx, partIdx) of the
\* conversation the loop iterates over
AntigravityLinkPart(st, content, contentIdx, partIdx) ==
    LET part == content.parts[partIdx]
        funcName == part.name
    IN  IF content.role = "model"
        THEN IF HasFunctionCall(part)
             THEN LET n == Count(st.callCount, funcName)
                  IN  IF MissingId(part)
                      THEN LET toolID == generateToolID(st.generated + 1)
                           IN [st EXCEPT
                                !.generated = @ + 1,
                                !.callCount = Put(@, funcName, n + 1),
                                !.toolIDMap = Put(@, callKey(funcName, n), toolID),
                                !.contents[contentIdx].parts[partIdx].id = toolID]
                      ELSE [st EXCEPT
                                !.callCount = Put(@, funcName, n + 1),
                                !.toolIDMap = Put(@, callKey(funcName, n), part.id)]
             ELSE st
        ELSE IF content.role = "user" \/ content.role = "function"
        THEN IF HasFunctionResponse(part) /\ MissingId(part)
             THEN LET n == Count(st.respCount, funcName)
                      counted == [st EXCEPT !.respCount = Put(@, funcName, n + 1)]
                  IN  IF callKey(funcName, n) \in DOMAIN st.toolIDMap
                      THEN [counted EXCEPT
                                !.contents[contentIdx].parts[partIdx].id =
                                    st.toolIDMap[callKey(funcName, n)]]
                      ELSE counted
             ELSE st
        ELSE st

\* gemini lines 97..136: the same walk; it also writes the sentinel onto
\* the parts of model turns, registers only the calls it generated an id
\* for, and reads responses in user turns only
GeminiLinkPart(st, content, contentIdx, partIdx) ==
    LET part == content.parts[partIdx]
        funcName == part.name
    IN  IF content.role = "model"
        THEN IF HasFunctionCall(part)
             THEN LET signed == [st EXCEPT
                        !.contents[contentIdx].parts[partIdx] =
                            SetSignature(@, skipSentinel)]
                      n == Count(st.callCount, funcName)
                  IN  IF MissingId(part)
                      THEN LET toolID == generateToolID(st.generated + 1)
                           IN [signed EXCEPT
                                !.generated = @ + 1,
                                !.callCount = Put(@, funcName, n + 1),
                                !.toolIDMap = Put(@, callKey(funcName, n), toolID),
                                !.contents[contentIdx].parts[partIdx].id = toolID]
                      ELSE signed
             ELSE IF part.hasThoughtSignature
             THEN [st EXCEPT
                        !.contents[contentIdx].parts[partIdx] =
                            SetSignature(@, skipSentinel)]
             ELSE st
        ELSE IF content.role = "user"
        THEN IF HasFunctionResponse(part) /\ MissingId(part)
             THEN LET n == Count(st.respCount, funcName)
                      counted == [st EXCEPT !.respCount = Put(@, funcName, n + 1)]
                  IN  IF callKey(funcName, n) \in DOMAIN st.toolIDMap
                      THEN [counted EXCEPT
                                !.contents[contentIdx].parts[partIdx].id =
                                    st.toolIDMap[callKey(funcName, n)]]
                      ELSE counted
             ELSE st
        ELSE st

\* respCount[funcName] = n + 1 left out
LinkPart_CounterKept(gemini, st, content, contentIdx, partIdx) ==
    LET linked == IF gemini
                  THEN GeminiLinkPart(st, content, contentIdx, partIdx)
                  ELSE AntigravityLinkPart(st, content, contentIdx, partIdx)
    IN  [linked EXCEPT !.respCount = st.respCount]

LinkPart(gemini, st, content, contentIdx, partIdx) ==
    IF gemini THEN GeminiLinkPart(st, content, contentIdx, partIdx)
    ELSE AntigravityLinkPart(st, content, contentIdx, partIdx)

\* the two nested ForEach loops, over the conversation as it was when the
\* walk began
RECURSIVE LinkFrom(_, _, _, _, _)
LinkFrom(gemini, st, contents, contentIdx, partIdx) ==
    IF contentIdx > Len(contents) THEN st
    ELSE IF partIdx > Len(contents[contentIdx].parts)
    THEN LinkFrom(gemini, st, contents, contentIdx + 1, 1)
    ELSE LinkFrom(gemini,
                  LinkPart(gemini, st, contents[contentIdx], contentIdx, partIdx),
                  contents, contentIdx, partIdx + 1)

AntigravityLink(contents) ==
    LinkFrom(FALSE, NewLinking(contents), contents, 1, 1).contents

GeminiLink(contents) ==
    LinkFrom(TRUE, NewLinking(contents), contents, 1, 1).contents

----------------------------------------------------------------------------
(* The Reasoning-Trace Adapter of the antigravity translator (lines 207..240) *)

SignPart(role, part) ==
    IF role # "model" THEN part
    ELSE IF part.thought
    THEN SetSignature(part, skipSentinel)
    ELSE IF HasFunctionCall(part)
            /\ (part.thoughtSignature = NoSig
                \/ Len(part.thoughtSignature) < MinSigLen)
    THEN SetSignature(part, skipSentinel)
    ELSE part

\* the sentinel written for every model family
AdaptSignatures_AnyFamily(name, contents) ==
    [c \in 1..Len(contents) |->
        [contents[c] EXCEPT
            !.parts = [p \in 1..Len(contents[c].parts) |->
                          SignPart(contents[c].role, contents[c].parts[p])]]]

AdaptSignatures(name, contents) ==
    IF IsClaude(name) THEN contents
    ELSE [c \in 1..Len(contents) |->
            [contents[c] EXCEPT
                !.parts = [p \in 1..Len(contents[c].parts) |->
                              SignPart(contents[c].role, contents[c].parts[p])]]]

----------------------------------------------------------------------------
(* The Schema & Field Adapter: the keys of the payload beside contents *)

\* gjson: Get(path).Exists(); sjson: Delete(path)
Exists(object, key) == key \in DOMAIN object
Delete(object, key) == [k \in (DOMAIN object) \ {key} |-> object[k]]

\* util.RenameKey: the value of oldKey set at newKey, then oldKey deleted
RenameKey(object, oldKey, newKey) ==
    IF ~Exists(object, oldKey) THEN object
    ELSE Delete(Put(object, newKey, object[oldKey]), oldKey)

\* tools.i.functionDeclarations -> tools.i.function_declarations
RenameDeclarations(tool) ==
    RenameKey(tool, "functionDeclarations", "function_declarations")

\* the loop over j left after its first round
RenameParameters_FirstOnly(tool) ==
    IF ~Exists(tool, "function_declarations") THEN tool
    ELSE LET declarations == tool["function_declarations"]
         IN Put(tool, "function_declarations",
                [j \in 1..Len(declarations) |->
                    IF j = 1
                    THEN RenameKey(declarations[j],
                                   "parameters", "parametersJsonSchema")
                    ELSE declarations[j]])

\* tools.i.function_declarations.j.parameters -> .parametersJsonSchema
RenameParameters(tool) ==
    IF ~Exists(tool, "function_declarations") THEN tool
    ELSE LET declarations == tool["function_declarations"]
         IN Put(tool, "function_declarations",
                [j \in 1..Len(declarations) |->
                    RenameKey(declarations[j],
                              "parameters", "parametersJsonSchema")])

\* the walk over the tools array with the renames of one translator
RenameTools(gemini, rest) ==
    IF ~Exists(rest, "tools") THEN rest
    ELSE Put(rest, "tools",
             [i \in 1..Len(rest["tools"]) |->
                 IF gemini
                 THEN RenameParameters(RenameDeclarations(rest["tools"][i]))
                 ELSE RenameParameters(rest["tools"][i])])

\* request.system_instruction -> request.systemInstruction
RenameSystemInstruction(rest) ==
    IF ~Exists(rest, "system_instruction") THEN rest
    ELSE Delete(Put(rest, "systemInstruction", rest["system_instruction"]),
                "system_instruction")

\* generationConfig.responseSchema -> generationConfig.responseJsonSchema
RenameResponseSchema(rest) ==
    IF ~Exists(rest, "generationConfig") THEN rest
    ELSE Put(rest, "generationConfig",
             RenameKey(rest["generationConfig"],
                       "responseSchema", "responseJsonSchema"))

\* common.AttachDefaultSafetySettings: the default list, where the client
\* sent none
AttachDefaultSafetySettings(rest) ==
    IF Exists(rest, "safetySettings") THEN rest
    ELSE Put(rest, "safetySettings", "default")

\* the rest of the request ConvertGeminiRequestToAntigravity emits
AntigravityRest(payload) ==
    AttachDefaultSafetySettings(
        RenameTools(FALSE,
            RenameSystemInstruction(Delete(payload.rest, "model"))))

\* the fast path left out: the renames run without contents too
GeminiRest_NoFastPath(payload) ==
    AttachDefaultSafetySettings(
        RenameResponseSchema(RenameTools(TRUE, payload.rest)))

\* the rest of the payload ConvertGeminiRequestToGemini emits
GeminiRest(payload) ==
    IF ~payload.hasContents THEN AttachDefaultSafetySettings(payload.rest)
    ELSE AttachDefaultSafetySettings(
             RenameResponseSchema(RenameTools(TRUE, payload.rest)))

----------------------------------------------------------------------------
(* The two translators, as the sequence of stages each runs *)

Stage(name, contents) == [stage |-> name, contents |-> contents]

\* an error that is nil
NoError == "<nil>"

\* errFixCLIToolResponse (line 51): the error fixCLIToolResponse returns
\* with its input when the payload has no contents (lines 292..295)
errFixCLIToolResponse(payload) ==
    IF ~payload.hasContents THEN "contents not found in input" ELSE NoError

\* ConvertGeminiRequestToAntigravity (lines 43..243)
AntigravityStages(name, payload) ==
    IF errFixCLIToolResponse(payload) # NoError THEN <<>>
    ELSE LET grouped == fixCLIToolResponse(payload.contents)
             roles == NormalizeRoles(grouped)
             prefilled == AdaptPrefill(name, roles)
             linked == AntigravityLink(prefilled)
             signed == AdaptSignatures(name, linked)
         IN << Stage("group", grouped), Stage("roles", roles),
               Stage("prefill", prefilled), Stage("link", linked),
               Stage("signature", signed) >>

\* ConvertGeminiRequestToGemini (lines 28..145)
GeminiStages(name, payload) ==
    IF ~payload.hasContents THEN <<>>
    ELSE LET roles == NormalizeRoles(payload.contents)
             linked == GeminiLink(roles)
         IN << Stage("roles", roles), Stage("link", linked) >>

\* []byte{}: nothing returned. Both translators have the byte slice as
\* their one result, so what a caller receives never carries an error.
EmptyBytes ==
    [ok |-> FALSE, err |-> NoError, contents |-> <<>>, rest |-> EmptyMap]

Emitted(stages, payload) ==
    IF stages = <<>> THEN payload.contents ELSE stages[Len(stages)].contents

ConvertGeminiRequestToAntigravity(name) ==
    /\ pc = "start"
    /\ pc' = "done"
    /\ fn' = "antigravity"
    /\ modelName' = name
    /\ trace' = AntigravityStages(name, input)
    /\ output' = IF errFixCLIToolResponse(input) # NoError
                 THEN EmptyBytes
                 ELSE [ok |-> TRUE, err |-> NoError,
                       contents |-> Emitted(trace', input),
                       rest |-> AntigravityRest(input)]
    /\ UNCHANGED <<input, running, kiro, accounts, grouper,
                   refreshing>>

ConvertGeminiRequestToGemini(name) ==
    /\ pc = "start"
    /\ pc' = "done"
    /\ fn' = "gemini"
    /\ modelName' = name
    /\ trace' = GeminiStages(name, input)
    /\ output' = [ok |-> TRUE, err |-> NoError, contents |-> Emitted(trace', input),
                  rest |-> GeminiRest(input)]
    /\ UNCHANGED <<input, running, kiro, accounts, grouper,
                   refreshing>>

----------------------------------------------------------------------------
(* Calls running side by side: each goes through the stages of its        *)
(* translator one at a time, between the steps of the others.  What a call *)
(* holds between two stages is its own copy of the payload and the maps of *)
(* its linker; pendingGroups and collectedResponses live within the        *)
(* grouper stage.                                                          *)

Calls == {"c1", "c2"}

NoPayload == [hasContents |-> FALSE, contents |-> <<>>, rest |-> EmptyMap]

IdleCall ==
    [pc |-> "idle", fn |-> "none", modelName |-> <<>>, input |-> NoPayload,
     contents |-> <<>>, linking |-> NewLinking(<<>>), linkedAfter |-> {},
     output |-> EmptyBytes]

\* the calls that have run their linker and registered a call in it
HaveLinked(all) ==
    {d \in DOMAIN all : /\ all[d].pc \in {"signature", "done"}
                         /\ all[d].linking.toolIDMap # EmptyMap}

\* the maps kept where every call sees them: those another call has left
CallLinking_Shared(all, c, contents) ==
    IF HaveLinked(all) \ {c} = {} THEN NewLinking(contents)
    ELSE [all[CHOOSE d \in HaveLinked(all) \ {c} : TRUE].linking
             EXCEPT !.contents = contents]

\* callCount, toolIDMap, respCount := make(map...): made anew in each call
CallLinking(all, c, contents) == NewLinking(contents)

\* a translator is entered with a model name and a payload
StartCall(c, translator, name, payload) ==
    /\ running[c].pc = "idle"
    /\ running' = [running EXCEPT ![c] =
          [IdleCall EXCEPT
             !.fn = translator,
             !.modelName = name,
             !.input = payload,
             !.contents = payload.contents,
             !.pc = IF ~payload.hasContents THEN "done"
                    ELSE IF translator = "antigravity" THEN "group"
                    ELSE "roles",
             !.output = IF ~payload.hasContents /\ translator = "gemini"
                        THEN [ok |-> TRUE, err |-> NoError, contents |-> <<>>,
                              rest |-> GeminiRest(payload)]
                        ELSE EmptyBytes]]
    /\ UNCHANGED <<single, kiro, accounts, grouper,
                   refreshing>>

GroupStep(c) ==
    /\ running[c].pc = "group"
    /\ running' = [running EXCEPT
          ![c].contents = fixCLIToolResponse(@),
          ![c].pc = "roles"]
    /\ UNCHANGED <<single, kiro, accounts, grouper,
                   refreshing>>

RolesStep(c) ==
    /\ running[c].pc = "roles"
    /\ running' = [running EXCEPT
          ![c].contents = NormalizeRoles(@),
          ![c].pc = IF running[c].fn = "antigravity" THEN "prefill" ELSE "link"]
    /\ UNCHANGED <<single, kiro, accounts, grouper,
                   refreshing>>

PrefillStep(c) ==
    /\ running[c].pc = "prefill"
    /\ running' = [running EXCEPT
          ![c].contents = AdaptPrefill(running[c].modelName, @),
          ![c].pc = "link"]
    /\ UNCHANGED <<single, kiro, accounts, grouper,
                   refreshing>>

LinkStep(c) ==
    /\ running[c].pc = "link"
    /\ LET linked == LinkFrom(running[c].fn = "gemini",
                              CallLinking(running, c, running[c].contents),
                              running[c].contents, 1, 1)
       IN running' = [running EXCEPT
            ![c].contents = linked.contents,
            ![c].linking = linked,
            ![c].linkedAfter = HaveLinked(running),
            ![c].pc = IF running[c].fn = "antigravity" THEN "signature"
                      ELSE "done",
            ![c].output = IF running[c].fn = "antigravity" THEN EmptyBytes
                          ELSE [ok |-> TRUE, err |-> NoError, contents |-> linked.contents,
                                rest |-> GeminiRest(running[c].input)]]
    /\ UNCHANGED <<single, kiro, accounts, grouper,
                   refreshing>>

SignatureStep(c) ==
    /\ running[c].pc = "signature"
    /\ LET signed == AdaptSignatures(running[c].modelName, running[c].contents)
       IN running' = [running EXCEPT
            ![c].contents = signed,
            ![c].pc = "done",
            ![c].output = [ok |-> TRUE, err |-> NoError, contents |-> signed,
                           rest |-> AntigravityRest(running[c].input)]]
    /\ UNCHANGED <<single, kiro, accounts, grouper,
                   refreshing>>

----------------------------------------------------------------------------
(* FingerprintManager (package kiro): a cache of one Fingerprint per       *)
(* tokenKey behind a sync.RWMutex.  A Fingerprint is an object on the      *)
(* heap, two pointers are equal when they are the same index; of its       *)
(* content the model keeps the tokenKey and the config it was generated    *)
(* from.  mu.RLock waits while a writer holds mu, mu.Lock while anyone     *)
(* does.                                                                   *)

Goroutines == {"g1", "g2", "g3"}
TokenKeys == {"token1", "token2"}
FingerprintConfigs == {"cfg1", "cfg2"}

nil == 0

NewFingerprintManager ==
    [mu |-> [readers |-> {}, writer |-> "none"],
     fingerprints |-> EmptyMap,
     config |-> "nil"]

IdleGoroutine ==
    [pc |-> "idle", tokenKey |-> "", fp |-> nil, cfg |-> "nil", since |-> 0]

NoHistory == [epoch |-> 0, returned |-> {}]

\* fp, exists := fm.fingerprints[tokenKey]
Cached(manager, tokenKey) ==
    IF tokenKey \in DOMAIN manager.fingerprints
    THEN manager.fingerprints[tokenKey]
    ELSE nil

\* the call of g has returned fp
Returned(g, fp) ==
    IF goroutine[g].since = history.epoch
    THEN [history EXCEPT !.returned = @ \cup {<<goroutine[g].tokenKey, fp>>}]
    ELSE history

\* the goroutines inside SetConfig
Setting == {g \in Goroutines : goroutine[g].pc \in {"SetLock", "SetUnlock"}}

\* fm.GetFingerprint(tokenKey) is called
GetFingerprint(g, tokenKey) ==
    /\ goroutine[g].pc = "idle"
    /\ Len(heap) < MaxFingerprints
    /\ goroutine' = [goroutine EXCEPT ![g] =
          [IdleGoroutine EXCEPT !.pc = "RLock", !.tokenKey = tokenKey,
                                !.since = history.epoch]]
    /\ UNCHANGED <<fm, heap, history, single, running, accounts, grouper,
                   refreshing>>

\* lines 892..893: fm.mu.RLock() and the first lookup
RLock(g) ==
    /\ goroutine[g].pc = "RLock"
    /\ fm.mu.writer = "none"
    /\ fm' = [fm EXCEPT !.mu.readers = @ \cup {g}]
    /\ goroutine' = [goroutine EXCEPT
          ![g].fp = Cached(fm, goroutine[g].tokenKey),
          ![g].pc = "RUnlock"]
    /\ UNCHANGED <<heap, history, single, running, accounts, grouper,
                   refreshing>>

\* lines 894..897: fm.mu.RUnlock(), and return fp if it was there
RUnlock(g) ==
    /\ goroutine[g].pc = "RUnlock"
    /\ fm' = [fm EXCEPT !.mu.readers = @ \ {g}]
    /\ IF goroutine[g].fp # nil
       THEN /\ goroutine' = [goroutine EXCEPT ![g] = IdleGoroutine]
            /\ history' = Returned(g, goroutine[g].fp)
       ELSE /\ goroutine' = [goroutine EXCEPT ![g].pc = "Lock"]
            /\ UNCHANGED history
    /\ UNCHANGED <<heap, single, running, accounts, grouper,
                   refreshing>>

\* the second lookup left out
Recheck_Never(manager, tokenKey) == nil

\* lines 902..904: the lookup again, under the write lock
Recheck(manager, tokenKey) == Cached(manager, tokenKey)

\* lines 899..904: fm.mu.Lock() and the second lookup
Lock(g) ==
    /\ goroutine[g].pc = "Lock"
    /\ fm.mu.writer = "none"
    /\ fm.mu.readers = {}
    /\ fm' = [fm EXCEPT !.mu.writer = g]
    /\ goroutine' = [goroutine EXCEPT
          ![g].fp = Recheck(fm, goroutine[g].tokenKey),
          ![g].pc = IF Recheck(fm, goroutine[g].tokenKey) # nil
                    THEN "Unlock" ELSE "generate"]
    /\ UNCHANGED <<heap, history, single, running, accounts, grouper,
                   refreshing>>

\* lines 906..907: fp := fm.generateFingerprint(tokenKey), stored
generateFingerprint(g) ==
    /\ goroutine[g].pc = "generate"
    /\ heap' = Append(heap, [tokenKey |-> goroutine[g].tokenKey,
                             config |-> fm.config,
                             epoch |-> history.epoch])
    /\ fm' = [fm EXCEPT
          !.fingerprints = Put(@, goroutine[g].tokenKey, Len(heap) + 1)]
    /\ goroutine' = [goroutine EXCEPT ![g].fp = Len(heap) + 1,
                                      ![g].pc = "Unlock"]
    /\ UNCHANGED <<history, single, running, accounts, grouper,
                   refreshing>>

\* line 900, deferred: fm.mu.Unlock(), and return fp
Unlock(g) ==
    /\ goroutine[g].pc = "Unlock"
    /\ fm' = [fm EXCEPT !.mu.writer = "none"]
    /\ goroutine' = [goroutine EXCEPT ![g] = IdleGoroutine]
    /\ history' = Returned(g, goroutine[g].fp)
    /\ UNCHANGED <<heap, single, running, accounts, grouper,
                   refreshing>>

\* fm.SetConfig(cfg) is called
SetConfig(g, cfg) ==
    /\ goroutine[g].pc = "idle"
    /\ history.epoch + Cardinality(Setting) < MaxConfigs
    /\ goroutine' = [goroutine EXCEPT ![g] =
          [IdleGoroutine EXCEPT !.pc = "SetLock", !.cfg = cfg]]
    /\ UNCHANGED <<fm, heap, history, single, running, accounts, grouper,
                   refreshing>>

\* the config set, the cache kept
SetLock_KeepsCache(g) ==
    /\ goroutine[g].pc = "SetLock"
    /\ fm.mu.writer = "none"
    /\ fm.mu.readers = {}
    /\ fm' = [fm EXCEPT !.mu.writer = g,
                        !.config = goroutine[g].cfg]
    /\ goroutine' = [goroutine EXCEPT ![g].pc = "SetUnlock"]
    /\ history' = [epoch |-> history.epoch + 1, returned |-> {}]
    /\ UNCHANGED <<heap, single, running, accounts, grouper,
                   refreshing>>

\* lines 876..880: fm.mu.Lock(), the config set and the cache cleared
SetLock(g) ==
    /\ goroutine[g].pc = "SetLock"
    /\ fm.mu.writer = "none"
    /\ fm.mu.readers = {}
    /\ fm' = [fm EXCEPT !.mu.writer = g,
                        !.config = goroutine[g].cfg,
                        !.fingerprints = EmptyMap]
    /\ goroutine' = [goroutine EXCEPT ![g].pc = "SetUnlock"]
    /\ history' = [epoch |-> history.epoch + 1, returned |-> {}]
    /\ UNCHANGED <<heap, single, running, accounts, grouper,
                   refreshing>>

\* line 877, deferred: fm.mu.Unlock()
SetUnlock(g) ==
    /\ goroutine[g].pc = "SetUnlock"
    /\ fm' = [fm EXCEPT !.mu.writer = "none"]
    /\ goroutine' = [goroutine EXCEPT ![g] = IdleGoroutine]
    /\ UNCHANGED <<heap, history, single, running, accounts, grouper,
                   refreshing>>

----------------------------------------------------------------------------
(* fixCLIToolResponse one iteration at a time.  grouper holds the position *)
(* (pc, idx in contents, i in pendingGroups), the local variables (st) and *)
(* scans: for every scan of pendingGroups made for a response-bearing      *)
(* turn, and every group examined by the flush, what the buffer and the    *)
(* groups were before, which groups were closed and what was emitted.      *)

IdleGrouper ==
    [pc |-> "idle", idx |-> 0, i |-> 0, st |-> NewGrouping, scans |-> <<>>]

\* the contents emitted between two states of the grouper
EmittedBetween(before, after) ==
    SubSeq(after.contents, Len(before.contents) + 1, Len(after.contents))

\* the position after idx: the next turn, or the flush after the last one
AfterTurn ==
    IF grouper.idx >= Len(input.contents)
    THEN [grouper EXCEPT !.pc = "flush", !.i = 1]
    ELSE [grouper EXCEPT !.pc = "turn", !.idx = @ + 1]

\* lines 287..300: the call; without contents it returns the error
GrouperStart ==
    /\ grouper.pc = "idle"
    /\ grouper' = IF ~input.hasContents
                  THEN [grouper EXCEPT !.pc = "error"]
                  ELSE [AfterTurn EXCEPT !.st = NewGrouping]
    /\ UNCHANGED <<single, running, kiro, accounts,
                   refreshing>>

\* lines 305..318 and 351..391: a content without functionResponse is
\* appended (with a new group when it is a model turn with calls); the
\* responses of one with functionResponse parts are collected
GrouperTurn ==
    /\ grouper.pc = "turn"
    /\ LET value == input.contents[grouper.idx]
       IN  IF Len(responsePartsIn(value)) > 0
           THEN grouper' = [grouper EXCEPT
                    !.pc = "scan",
                    !.st = CollectResponses(grouper.st, value)]
           ELSE grouper' = [AfterTurn EXCEPT
                    !.st = GroupContent(grouper.st, value)]
    /\ UNCHANGED <<single, running, kiro, accounts,
                   refreshing>>

\* lines 321..348: the scan of pendingGroups for the responses collected
GrouperScan ==
    /\ grouper.pc = "scan"
    /\ LET after == SatisfyNewestGroup(grouper.st)
           gone == SelectSeq(grouper.st.pendingGroups,
                       LAMBDA g : \A k \in 1..Len(after.pendingGroups) :
                                     after.pendingGroups[k] # g)
       IN  grouper' = [AfterTurn EXCEPT
              !.st = after,
              !.scans = Append(@,
                  [during |-> "turn",
                   at |-> grouper.idx,
                   pendingGroups |-> grouper.st.pendingGroups,
                   collectedResponses |-> grouper.st.collectedResponses,
                   closed |-> gone,
                   emitted |-> EmittedBetween(grouper.st, after),
                   left |-> after.collectedResponses])]
    /\ UNCHANGED <<single, running, kiro, accounts,
                   refreshing>>

\* lines 395..412: one group of the flush
GrouperFlush ==
    /\ grouper.pc = "flush"
    /\ grouper.i <= Len(grouper.st.pendingGroups)
    /\ LET after == FlushGroup(grouper.st, grouper.i)
       IN  grouper' = [grouper EXCEPT
              !.i = @ + 1,
              !.st = after,
              !.scans = Append(@,
                  [during |-> "flush",
                   at |-> grouper.i,
                   pendingGroups |-> <<grouper.st.pendingGroups[grouper.i]>>,
                   collectedResponses |-> grouper.st.collectedResponses,
                   closed |-> IF after = grouper.st THEN <<>>
                              ELSE <<grouper.st.pendingGroups[grouper.i]>>,
                   emitted |-> EmittedBetween(grouper.st, after),
                   left |-> after.collectedResponses])]
    /\ UNCHANGED <<single, running, kiro, accounts,
                   refreshing>>

\* lines 414..418: the new contents written back and returned
GrouperReturn ==
    /\ grouper.pc = "flush"
    /\ grouper.i > Len(grouper.st.pendingGroups)
    /\ grouper' = [grouper EXCEPT !.pc = "done"]
    /\ UNCHANGED <<single, running, kiro, accounts,
                   refreshing>>

----------------------------------------------------------------------------
(* The content of a Fingerprint (part_000 lines 828..1008).                *)
(*                                                                         *)
(* A string is a sequence of tokens, <<>> the empty string.  sha256 and    *)
(* the random generators are not computed: sha256.Sum256(s) is the value   *)
(* <<"sha256", s>>, and the value of the n-th Intn call on a generator is  *)
(* named by the seed of the generator and n, so that two values drawn are  *)
(* equal in the model only when the code computes them from the same seed  *)
(* by the same number of calls.  A list of one choice yields that choice   *)
(* whatever is drawn.  A *FingerprintConfig is <<>> (nil) or <<cfg>>.      *)

Managers == {"fm1", "fm2"}

\* the goroutines calling GetFingerprint; missed[g] of a manager is
\* <<tokenKey>> while g is between the two locks of its call, else <<>>
ManagerCallers == {"h1", "h2"}

oidcSDKVersions ==
    <<"3.980.0", "3.975.0", "3.972.0", "3.808.0",
      "3.738.0", "3.737.0", "3.736.0", "3.735.0">>
runtimeSDKVersions == <<"1.0.0">>
streamingSDKVersions == <<"1.0.27">>
osTypes == <<"darwin", "windows", "linux">>
osVersions ==
    [darwin |-> <<"25.2.0", "25.1.0", "25.0.0", "24.5.0", "24.4.0", "24.3.0">>,
     windows |-> <<"10.0.26200", "10.0.26100", "10.0.22631", "10.0.22621",
                   "10.0.19045">>,
     linux |-> <<"6.12.0", "6.11.0", "6.8.0", "6.6.0", "6.5.0", "6.1.0">>]
nodeVersions ==
    <<"22.21.1", "22.21.0", "22.20.0", "22.19.0", "22.18.0",
      "20.18.0", "20.17.0", "20.16.0">>
kiroVersions ==
    <<"0.10.32", "0.10.16", "0.10.10", "0.9.47", "0.9.40", "0.9.2",
      "0.8.206", "0.8.140", "0.8.135", "0.8.86">>

\* sha256.Sum256([]byte(s))
Sum256(s) == <<"sha256", s>>

\* hex.EncodeToString(hash[:])
EncodeToString(hash) == <<"hex">> \o hash

\* hash[:8]
First8(hash) == hash \o <<"[:8]">>

\* rand.New(rand.NewSource(seed)): nothing drawn yet
NewRand(seed) == [seed |-> seed, draws |-> 0]

\* rng.Intn(n): the generator after the call
Intn(rng) == [rng EXCEPT !.draws = @ + 1]

\* the entry of list at the index the last Intn call on rng returned
Drawn(list, rng) ==
    list \o <<"[">> \o rng.seed \o <<ToString(rng.draws), "]">>

\* choices[rng.Intn(len(choices))], rng being the generator after the call
Choice(list, choices, rng) ==
    IF Len(choices) = 1 THEN <<choices[1]>> ELSE Drawn(list, rng)

\* slices.Contains(osTypes, osType)
ContainsOS(osType) == \E i \in 1..Len(osTypes) : osType = <<osTypes[i]>>

\* osVersions[osType][rng.Intn(len(osVersions[osType]))] for one of osTypes,
\* which may itself have been drawn; each has several versions
OSVersionChoice(osType, rng) ==
    IF ContainsOS(osType)
    THEN Choice(<<"osVersions", osType[1]>>, osVersions[osType[1]], rng)
    ELSE Drawn(<<"osVersions", "[">> \o osType \o <<"]">>, rng)

\* NewFingerprintManager(), lines 883..888: rng seeded with the time, which
\* differs from one manager to the next
NewManager(m) ==
    [fingerprints |-> EmptyMap,
     rng |-> NewRand(<<"UnixNano", m>>),
     config |-> <<>>,
     sets |-> 0,
     missed |-> [g \in ManagerCallers |-> <<>>]]

\* lines 969..985: the fields drawn from rng in the order of evaluation
RandomFingerprint(hash, rng) ==
    LET r1 == IF ContainsOS(<<goos>>) THEN rng ELSE Intn(rng)
        osType == IF ContainsOS(<<goos>>) THEN <<goos>>
                  ELSE Choice(<<"osTypes">>, osTypes, r1)
        r2 == Intn(r1)
        r3 == Intn(r2)
        r4 == Intn(r3)
        r5 == Intn(r4)
        r6 == Intn(r5)
        r7 == Intn(r6)
    IN  [fp |->
           [OIDCSDKVersion |->
                Choice(<<"oidcSDKVersions">>, oidcSDKVersions, r3),
            RuntimeSDKVersion |->
                Choice(<<"runtimeSDKVersions">>, runtimeSDKVersions, r4),
            StreamingSDKVersion |->
                Choice(<<"streamingSDKVersions">>, streamingSDKVersions, r5),
            OSType |-> osType,
            OSVersion |-> OSVersionChoice(osType, r2),
            NodeVersion |-> Choice(<<"nodeVersions">>, nodeVersions, r6),
            KiroVersion |-> Choice(<<"kiroVersions">>, kiroVersions, r7),
            KiroHash |-> EncodeToString(hash)],
         rng |-> r7]

\* the fields drawn from fm.rng, the generator all keys of a manager share
generateRandom_ManagerRng(manager, accountKey) ==
    RandomFingerprint(Sum256(accountKey), manager.rng)

\* lines 964..986: a generator of its own, seeded with the hash of the key;
\* fm.rng is not touched
generateRandom(manager, accountKey) ==
    LET hash == Sum256(accountKey)
    IN  [fp |-> RandomFingerprint(hash, NewRand(First8(hash))).fp,
         rng |-> manager.rng]

\* configOrRandom, lines 923..928: the generator draws only for an empty
\* config value
configOrRandom(configVal, rng) == IF configVal # <<>> THEN rng ELSE Intn(rng)

configOrChoice(configVal, list, choices, rng) ==
    IF configVal # <<>> THEN configVal ELSE Choice(list, choices, rng)

\* lines 919..961: config values, and fm.rng for the empty ones
generateFromConfig(manager, tokenKey) ==
    LET cfg == manager.config[1]
        r0 == manager.rng
        drawType == cfg.OSType = <<>> /\ ~ContainsOS(<<goos>>)
        r1 == IF drawType THEN Intn(r0) ELSE r0
        osType == IF cfg.OSType # <<>> THEN cfg.OSType
                  ELSE IF ContainsOS(<<goos>>) THEN <<goos>>
                  ELSE Choice(<<"osTypes">>, osTypes, r1)
        \* osVersions[osType] exists for the three osTypes, drawn ones too
        drawVersion == cfg.OSVersion = <<>> /\ (drawType \/ ContainsOS(osType))
        r2 == IF drawVersion THEN Intn(r1) ELSE r1
        osVersion == IF cfg.OSVersion # <<>> THEN cfg.OSVersion
                     ELSE IF drawVersion THEN OSVersionChoice(osType, r2)
                     ELSE <<>>
        kiroHash == IF cfg.KiroHash # <<>> THEN cfg.KiroHash
                    ELSE EncodeToString(Sum256(tokenKey))
        r3 == configOrRandom(cfg.OIDCSDKVersion, r2)
        r4 == configOrRandom(cfg.RuntimeSDKVersion, r3)
        r5 == configOrRandom(cfg.StreamingSDKVersion, r4)
        r6 == configOrRandom(cfg.NodeVersion, r5)
        r7 == configOrRandom(cfg.KiroVersion, r6)
    IN  [fp |->
           [OIDCSDKVersion |->
                configOrChoice(cfg.OIDCSDKVersion, <<"oidcSDKVersions">>,
                               oidcSDKVersions, r3),
            RuntimeSDKVersion |->
                configOrChoice(cfg.RuntimeSDKVersion, <<"runtimeSDKVersions">>,
                               runtimeSDKVersions, r4),
            StreamingSDKVersion |->
                configOrChoice(cfg.StreamingSDKVersion,
                               <<"streamingSDKVersions">>,
                               streamingSDKVersions, r5),
            OSType |-> osType,
            OSVersion |-> osVersion,
            NodeVersion |->
                configOrChoice(cfg.NodeVersion, <<"nodeVersions">>,
                               nodeVersions, r6),
            KiroVersion |->
                configOrChoice(cfg.KiroVersion, <<"kiroVersions">>,
                               kiroVersions, r7),
            KiroHash |-> kiroHash],
         rng |-> r7]

\* lines 911..916
generateFingerprintFor(manager, tokenKey) ==
    IF manager.config # <<>>
    THEN generateFromConfig(manager, tokenKey)
    ELSE generateRandom(manager, tokenKey)

\* a config that leaves every field but KiroVersion to the generator
NoConfigValues ==
    [OIDCSDKVersion |-> <<>>, RuntimeSDKVersion |-> <<>>,
     StreamingSDKVersion |-> <<>>, OSType |-> <<>>, OSVersion |-> <<>>,
     NodeVersion |-> <<>>, KiroVersion |-> <<>>, KiroHash |-> <<>>]

ConfigPointers ==
    {<<>>, <<[NoConfigValues EXCEPT !.KiroVersion = <<"0.10.32">>]>>}

\* lines 892..897 of m.GetFingerprint(tokenKey): the lookup under the read
\* lock; g returns the fingerprint it finds, or goes on to the write lock
GetFingerprintOf(m, g, tokenKey) ==
    /\ managers[m].missed[g] = <<>>
    /\ IF tokenKey \in DOMAIN managers[m].fingerprints
       THEN UNCHANGED managers
       ELSE managers' = [managers EXCEPT ![m].missed[g] = <<tokenKey>>]
    /\ UNCHANGED <<single, running, kiro, goos, accountKeys, grouper,
                   refreshing>>

\* lines 899..908: under the write lock g looks again, generates the
\* fingerprint if it is still not there, and returns
LockedGetFingerprintOf(m, g) ==
    /\ managers[m].missed[g] # <<>>
    /\ LET tokenKey == managers[m].missed[g][1]
           generated == generateFingerprintFor(managers[m], tokenKey)
       IN  IF tokenKey \in DOMAIN managers[m].fingerprints
           THEN managers' = [managers EXCEPT ![m].missed[g] = <<>>]
           ELSE managers' = [managers EXCEPT
                   ![m].fingerprints = Put(@, tokenKey, generated.fp),
                   ![m].rng = generated.rng,
                   ![m].missed[g] = <<>>]
    /\ UNCHANGED <<single, running, kiro, goos, accountKeys, grouper,
                   refreshing>>

\* m.SetConfig(cfg) from the call to its return, lines 875..881; sets
\* counts the calls
SetConfigOf(m, cfg) ==
    /\ managers[m].sets < MaxSets
    /\ managers' = [managers EXCEPT
          ![m].config = cfg,
          ![m].fingerprints = EmptyMap,
          ![m].sets = @ + 1]
    /\ UNCHANGED <<single, running, kiro, goos, accountKeys, grouper,
                   refreshing>>

\* lines 989..992
GenerateAccountKey(seed) == EncodeToString(First8(Sum256(seed)))

\* refreshToken before clientID
GetAccountKey_RefreshTokenFirst(clientID, refreshToken, random) ==
    IF refreshToken # "" THEN GenerateAccountKey(refreshToken)
    ELSE IF clientID # "" THEN GenerateAccountKey(clientID)
    ELSE GenerateAccountKey(random)

\* lines 995..1008; random is uuid.New().String()
GetAccountKey(clientID, refreshToken, random) ==
    IF clientID # "" THEN GenerateAccountKey(clientID)
    ELSE IF refreshToken # "" THEN GenerateAccountKey(refreshToken)
    ELSE GenerateAccountKey(random)

ClientIDs == {"", "client-id-123", "solo-client-id"}
RefreshTokens == {"", "refresh-token-456", "solo-refresh-token"}
UUIDs == {"uuid-1", "uuid-2"}

\* GetAccountKey(clientID, refreshToken) is called and returns
AccountKey(clientID, refreshToken) ==
    /\ Len(accountKeys) < MaxKeyCalls
    /\ \E random \in UUIDs :
          accountKeys' = Append(accountKeys,
              [clientID |-> clientID, refreshToken |-> refreshToken,
               key |-> GetAccountKey(clientID, refreshToken, random)])
    /\ UNCHANGED <<single, running, kiro, goos, managers, grouper,
                   refreshing>>

----------------------------------------------------------------------------
(* The RefreshManager                                                      *)
(*                                                                         *)
(* GetRefreshManager returns one manager for the process.  Every method    *)
(* takes rm.mu in its first statement and releases it on return (defer),   *)
(* so a caller is idle, inside a body holding the mutex, or, in            *)
(* InitializeAndStart, between Initialize and Start.  A                    *)
(* *BackgroundRefresher is an index into refreshers, a context an index    *)
(* into contexts, a callback a number; nil is 0.  Of a refresher the model *)
(* keeps the calls of Start and Stop it has received, its callback and the *)
(* directory of its token repository.  The config passed to Initialize is  *)
(* nil.                                                                    *)

RefreshCallers == {"r1", "r2"}
BaseDirs == {"", "auth"}
UpdatedDirs == {"moved"}
Callbacks == {1}

\* globalRefreshManager = &RefreshManager{}
NewRefreshManager ==
    [mu |-> "none", refresher |-> nil, ctx |-> nil, cancel |-> nil,
     started |-> FALSE, onTokenRefreshed |-> nil]

IdleCaller ==
    [pc |-> "idle", call |-> "", method |-> "", baseDir |-> "",
     callback |-> nil]

\* the manager with the objects it points to
World == [manager |-> rm, refreshers |-> refreshers, contexts |-> contexts]

\* util.ResolveAuthDir(baseDir): the resolved directory, or "" with an error
ResolveAuthDir(baseDir) == {"", "resolved " \o baseDir}

\* NewBackgroundRefresher(repo, opts...): a pointer to a new refresher
NewBackgroundRefresher(w) == Len(w.refreshers) + 1

\* context.WithCancel(context.Background()): a new context, and its cancel
WithCancel(w) == Len(w.contexts) + 1

\* the check of m.started left out
Initialize_WhileRunning(w, baseDir, resolvedBaseDir) ==
    IF baseDir = "" THEN w
    ELSE [w EXCEPT
            !.refreshers = Append(@,
                [calls |-> <<>>,
                 onTokenRefreshed |-> w.manager.onTokenRefreshed,
                 baseDir |-> IF resolvedBaseDir # "" THEN resolvedBaseDir
                             ELSE baseDir]),
            !.manager.refresher = NewBackgroundRefresher(w)]

\* lines 41..76, between Lock and Unlock; resolvedBaseDir is what
\* util.ResolveAuthDir returned
Initialize(w, baseDir, resolvedBaseDir) ==
    IF w.manager.started THEN w
    ELSE IF baseDir = "" THEN w
    ELSE [w EXCEPT
            !.refreshers = Append(@,
                [calls |-> <<>>,
                 onTokenRefreshed |-> w.manager.onTokenRefreshed,
                 baseDir |-> IF resolvedBaseDir # "" THEN resolvedBaseDir
                             ELSE baseDir]),
            !.manager.refresher = NewBackgroundRefresher(w)]

\* the check of m.started left out
Start_Again(w) ==
    IF w.manager.refresher = nil THEN w
    ELSE [w EXCEPT
            !.contexts = Append(@, 0),
            !.manager.ctx = WithCancel(w),
            !.manager.cancel = WithCancel(w),
            !.refreshers[w.manager.refresher].calls =
                Append(@, [call |-> "Start", ctx |-> WithCancel(w)]),
            !.manager.started = TRUE]

\* lines 84..98
Start(w) ==
    IF w.manager.started THEN w
    ELSE IF w.manager.refresher = nil THEN w
    ELSE [w EXCEPT
            !.contexts = Append(@, 0),
            !.manager.ctx = WithCancel(w),
            !.manager.cancel = WithCancel(w),
            !.refreshers[w.manager.refresher].calls =
                Append(@, [call |-> "Start", ctx |-> WithCancel(w)]),
            !.manager.started = TRUE]

\* lines 106..119
Stop(w) ==
    IF ~w.manager.started THEN w
    ELSE LET cancelled ==
                 IF w.manager.cancel # nil
                 THEN [w EXCEPT !.contexts[w.manager.cancel] = @ + 1]
                 ELSE w
             stopped ==
                 IF w.manager.refresher # nil
                 THEN [cancelled EXCEPT
                         !.refreshers[w.manager.refresher].calls =
                             Append(@, [call |-> "Stop", ctx |-> nil])]
                 ELSE cancelled
         IN  [stopped EXCEPT !.manager.started = FALSE]

\* line 126
IsRunning(w) == w.manager.started

\* lines 134..139: the repository of a refresher made by Initialize is a
\* *FileTokenRepository
UpdateBaseDir(w, baseDir) ==
    IF w.manager.refresher # nil
    THEN [w EXCEPT !.refreshers[w.manager.refresher].baseDir = baseDir]
    ELSE w

\* lines 148..155
SetOnTokenRefreshed(w, callback) ==
    LET set == [w EXCEPT !.manager.onTokenRefreshed = callback]
    IN  IF w.manager.refresher # nil
        THEN [set EXCEPT
                !.refreshers[w.manager.refresher].onTokenRefreshed = callback]
        ELSE set

\* what a caller may call, with the base directory and the callback it
\* passes: the methods, and InitializeAndStart
RefreshCalls ==
    {<<"Initialize", d, nil>> : d \in BaseDirs}
        \cup {<<"InitializeAndStart", d, nil>> : d \in BaseDirs}
        \cup {<<"Start", "", nil>>, <<"Stop", "", nil>>,
              <<"IsRunning", "", nil>>}
        \cup {<<"UpdateBaseDir", d, nil>> : d \in UpdatedDirs}
        \cup {<<"SetOnTokenRefreshed", "", cb>> : cb \in Callbacks}

\* the calls made so far: InitializeAndStart is one call and two bodies
CallsBegun ==
    Cardinality({i \in 1..Len(journal) :
                    ~(journal[i].call = "InitializeAndStart"
                        /\ journal[i].method = "Start")})
        + Cardinality({t \in RefreshCallers :
                    /\ callers[t].pc = "locked"
                    /\ ~(callers[t].call = "InitializeAndStart"
                            /\ callers[t].method = "Start")})

\* a goroutine calls a method of the manager, or InitializeAndStart, which
\* calls Initialize first (lines 165..166), and passes m.mu.Lock(), the
\* first statement of every method; it waits there while the mutex is held
RefreshCall(t, call, baseDir, callback) ==
    /\ callers[t].pc = "idle"
    /\ CallsBegun < MaxRefreshCalls
    /\ rm.mu = "none"
    /\ rm' = [rm EXCEPT !.mu = t]
    /\ callers' = [callers EXCEPT ![t] =
          [pc |-> "locked", call |-> call, baseDir |-> baseDir,
           callback |-> callback,
           method |-> IF call = "InitializeAndStart" THEN "Initialize"
                      ELSE call]]
    /\ UNCHANGED <<single, running, kiro, accounts, grouper,
                   refreshers, contexts, journal>>

\* m.mu.Lock() of the Start that InitializeAndStart calls (line 170)
RefreshLock(t) ==
    /\ callers[t].pc = "Lock"
    /\ rm.mu = "none"
    /\ rm' = [rm EXCEPT !.mu = t]
    /\ callers' = [callers EXCEPT ![t].pc = "locked"]
    /\ UNCHANGED <<single, running, kiro, accounts, grouper,
                   refreshers, contexts, journal>>

\* the body has run and the deferred m.mu.Unlock() with it
Unlocked(t, after, ret) ==
    /\ rm' = [after.manager EXCEPT !.mu = "none"]
    /\ refreshers' = after.refreshers
    /\ contexts' = after.contexts
    /\ journal' = Append(journal,
          [call |-> callers[t].call, method |-> callers[t].method,
           baseDir |-> callers[t].baseDir, caller |-> t,
           before |-> World, after |-> after, ret |-> ret])

\* the body of Initialize; it returns nil, and InitializeAndStart goes on
\* to call Start (line 170)
InitializeReturn(t) ==
    /\ callers[t].pc = "locked"
    /\ callers[t].method = "Initialize"
    /\ \E resolvedBaseDir \in ResolveAuthDir(callers[t].baseDir) :
          Unlocked(t, Initialize(World, callers[t].baseDir, resolvedBaseDir),
                   <<"nil">>)
    /\ callers' = [callers EXCEPT ![t] =
          IF callers[t].call = "InitializeAndStart"
          THEN [@ EXCEPT !.pc = "Lock", !.method = "Start"]
          ELSE IdleCaller]
    /\ UNCHANGED <<single, running, kiro, accounts, grouper>>

\* the body of Start
StartReturn(t) ==
    /\ callers[t].pc = "locked"
    /\ callers[t].method = "Start"
    /\ Unlocked(t, Start(World), <<>>)
    /\ callers' = [callers EXCEPT ![t] = IdleCaller]
    /\ UNCHANGED <<single, running, kiro, accounts, grouper>>

\* the body of Stop
StopReturn(t) ==
    /\ callers[t].pc = "locked"
    /\ callers[t].method = "Stop"
    /\ Unlocked(t, Stop(World), <<>>)
    /\ callers' = [callers EXCEPT ![t] = IdleCaller]
    /\ UNCHANGED <<single, running, kiro, accounts, grouper>>

\* the body of IsRunning
IsRunningReturn(t) ==
    /\ callers[t].pc = "locked"
    /\ callers[t].method = "IsRunning"
    /\ Unlocked(t, World, <<IsRunning(World)>>)
    /\ callers' = [callers EXCEPT ![t] = IdleCaller]
    /\ UNCHANGED <<single, running, kiro, accounts, grouper>>

\* the body of UpdateBaseDir
UpdateBaseDirReturn(t) ==
    /\ callers[t].pc = "locked"
    /\ callers[t].method = "UpdateBaseDir"
    /\ Unlocked(t, UpdateBaseDir(World, callers[t].baseDir), <<>>)
    /\ callers' = [callers EXCEPT ![t] = IdleCaller]
    /\ UNCHANGED <<single, running, kiro, accounts, grouper>>

\* the body of SetOnTokenRefreshed
SetOnTokenRefreshedReturn(t) ==
    /\ callers[t].pc = "locked"
    /\ callers[t].method = "SetOnTokenRefreshed"
    /\ Unlocked(t, SetOnTokenRefreshed(World, callers[t].callback), <<>>)
    /\ callers' = [callers EXCEPT ![t] = IdleCaller]
    /\ UNCHANGED <<single, running, kiro, accounts, grouper>>

----------------------------------------------------------------------------
(* Inbound requests *)

gemini == <<"g", "e", "m", "i", "n", "i">>

ModelNames == {claude \o <<"-", "4">>, gemini \o <<"-", "3">>}

PartVocabulary ==
    {TextPart(<<"a">>), FunctionCall("foo", NoId), FunctionResponse("foo", NoId)}

\* the sum of the first i entries of a sequence of numbers
RECURSIVE Total(_, _)
Total(sizes, i) == IF i = 0 THEN 0 ELSE sizes[i] + Total(sizes, i - 1)

\* the conversation whose i-th turn has role roles[i] and the next sizes[i]
\* of the parts
Conversation(roles, sizes, parts) ==
    [i \in 1..Len(roles) |->
        Content(roles[i],
                SubSeq(parts, Total(sizes, i - 1) + 1, Total(sizes, i)))]

\* no translator has been called yet
Idle ==
    /\ pc = "start"
    /\ fn = "none"
    /\ modelName = <<>>
    /\ trace = <<>>
    /\ output = EmptyBytes
    /\ running = [c \in Calls |-> IdleCall]
    /\ fm = NewFingerprintManager
    /\ goroutine = [g \in Goroutines |-> IdleGoroutine]
    /\ heap = <<>>
    /\ history = NoHistory
    /\ goos = "linux"
    /\ managers = [m \in Managers |-> NewManager(m)]
    /\ accountKeys = <<>>
    /\ grouper = IdleGrouper
    /\ rm = NewRefreshManager
    /\ callers = [t \in RefreshCallers |-> IdleCaller]
    /\ refreshers = <<>>
    /\ contexts = <<>>
    /\ journal = <<>>

\* a request has arrived: a payload without contents, or one with a
\* conversation of at most maxTurns turns holding at most maxParts parts
Received(roles, vocabulary, maxTurns, maxParts) ==
    /\ Idle
    /\ \/ input = [hasContents |-> FALSE, contents |-> <<>>, rest |-> EmptyMap]
       \/ \E t \in 0..maxTurns :
            \E rs \in [1..t -> roles] :
                \E sizes \in [1..t -> 0..maxParts] :
                    /\ Total(sizes, t) <= maxParts
                    /\ \E ps \in [1..Total(sizes, t) -> vocabulary] :
                        input = [hasContents |-> TRUE,
                                 contents |-> Conversation(rs, sizes, ps),
                                 rest |-> EmptyMap]

\* any role on any turn: valid, empty and invalid
Init == Received({"user", "model", "", "x"}, PartVocabulary, MaxTurns, MaxParts)

\* valid roles only, more parts: long enough for two calls and two responses
InitTools == Received({"user", "model"}, PartVocabulary, ToolTurns, ToolParts)

\* a function declaration: its name and, under paramKey, its schema
Declaration(paramKey, k) ==
    IF paramKey = "none" THEN [name |-> "foo"]
    ELSE Put([name |-> "foo"], paramKey, <<"schema", k>>)

\* a tool: its declarations under declKey, or a tool that declares none
Tool(declKey, declarations) ==
    IF declKey = "googleSearch" THEN [googleSearch |-> "on"]
    ELSE Put(EmptyMap, declKey, declarations)

\* the object holding value under key when present is set, else no key
Optional(present, key, value) ==
    IF present THEN Put(EmptyMap, key, value) ELSE EmptyMap

\* the object with the keys of both
Merge(a, b) ==
    [k \in (DOMAIN a) \cup (DOMAIN b) |-> IF k \in DOMAIN a THEN a[k] ELSE b[k]]

SchemaContents == {<<>>, <<Content("", <<TextPart(<<"a">>)>>)>>}

\* a request with any of the keys the Schema & Field Adapter reads: at most
\* MaxTools tools declaring at most MaxDecls functions between them
InitSchema ==
    /\ Idle
    /\ \E hasContents \in BOOLEAN :
       \E contents \in (IF hasContents THEN SchemaContents ELSE {<<>>}) :
       \E keys \in SUBSET {"tools", "system_instruction", "safetySettings"} :
       \E config \in {"none", "temperature", "responseSchema",
                       "responseJsonSchema"} :
       \E t \in 0..MaxTools :
       \E declKeys \in [1..t -> {"functionDeclarations",
                                  "function_declarations", "googleSearch"}] :
       \E sizes \in [1..t -> 0..MaxDecls] :
           /\ "tools" \notin keys => t = 0
           /\ Total(sizes, t) <= MaxDecls
           /\ \A i \in 1..t : declKeys[i] = "googleSearch" => sizes[i] = 0
           /\ \E paramKeys \in [1..Total(sizes, t) ->
                                   {"none", "parameters",
                                    "parametersJsonSchema"}] :
                input =
                  [hasContents |-> hasContents,
                   contents |-> contents,
                   rest |->
                     Merge(Optional("tools" \in keys, "tools",
                             [i \in 1..t |->
                                Tool(declKeys[i],
                                     [j \in 1..sizes[i] |->
                                        Declaration(
                                          paramKeys[Total(sizes, i - 1) + j],
                                          Total(sizes, i - 1) + j)])]),
                     Merge(Optional("system_instruction" \in keys,
                                    "system_instruction", "be brief"),
                     Merge(Optional("safetySettings" \in keys,
                                    "safetySettings", "client"),
                           Optional(config # "none", "generationConfig",
                                    Put(EmptyMap, config, "json")))))]

\* model identifiers in both letter cases
FamilyNames ==
    {claude \o <<"-", "4">>, <<"C", "L", "A", "U", "D", "E", "-", "4">>,
     gemini \o <<"-", "3">>}

\* texts that differ, a thought with text, a call without signature
FamilyVocabulary ==
    {TextPart(<<"a">>), TextPart(<<"b">>),
     Part("text", "", NoId, <<"c">>, TRUE, NoSig),
     FunctionCall("foo", NoId)}

InitFamily ==
    Received({"user", "model"}, FamilyVocabulary, FamilyTurns, FamilyParts)

NextFamily ==
    \/ \E name \in FamilyNames : ConvertGeminiRequestToAntigravity(name)
    \/ \E name \in FamilyNames : ConvertGeminiRequestToGemini(name)

\* a call turn, its response turn, a text turn of the model
ConcurrentVocabulary ==
    {Content("model", <<FunctionCall("foo", NoId)>>),
     Content("user", <<FunctionResponse("foo", NoId)>>),
     Content("model", <<TextPart(<<"a">>)>>)}

InitConcurrent ==
    /\ Idle
    /\ input = NoPayload

NextConcurrent ==
    \E c \in Calls :
        \/ \E translator \in {"antigravity", "gemini"} :
           \E name \in ModelNames :
              \/ StartCall(c, translator, name, NoPayload)
              \/ \E t \in 0..ConcurrentTurns :
                 \E turns \in [1..t -> ConcurrentVocabulary] :
                    StartCall(c, translator, name,
                              [hasContents |-> TRUE, contents |-> turns,
                               rest |-> EmptyMap])
        \/ GroupStep(c)
        \/ RolesStep(c)
        \/ PrefillStep(c)
        \/ LinkStep(c)
        \/ SignatureStep(c)

InitFingerprint ==
    /\ Idle
    /\ input = NoPayload

NextFingerprint ==
    \E g \in Goroutines :
        \/ \E tokenKey \in TokenKeys : GetFingerprint(g, tokenKey)
        \/ RLock(g)
        \/ RUnlock(g)
        \/ Lock(g)
        \/ generateFingerprint(g)
        \/ Unlock(g)
        \/ \E cfg \in FingerprintConfigs : SetConfig(g, cfg)
        \/ SetLock(g)
        \/ SetUnlock(g)

\* a functionResponse told from the others by its id
Response(id) == FunctionResponse("foo", <<id>>)

\* turns with one call or two, with one response or two, with text
GrouperVocabulary ==
    {Content("model", <<FunctionCall("foo", NoId)>>),
     Content("model", <<FunctionCall("foo", NoId), FunctionCall("foo", NoId)>>),
     Content("user", <<Response("A")>>),
     Content("user", <<Response("D")>>),
     Content("user", <<Response("B"), Response("C")>>),
     Content("user", <<TextPart(<<"a">>)>>)}

InitGrouper ==
    /\ Idle
    /\ \/ input = NoPayload
       \/ \E t \in 0..GroupTurns :
             \E turns \in [1..t -> GrouperVocabulary] :
                 input = [hasContents |-> TRUE, contents |-> turns,
                          rest |-> EmptyMap]

NextGrouper ==
    \/ GrouperStart
    \/ GrouperTurn
    \/ GrouperScan
    \/ GrouperFlush
    \/ GrouperReturn

\* a thoughtSignature of n characters
Signature(n) == [i \in 1..n |-> "s"]

\* a functionCall part of a model turn with a thoughtSignature
SignedCall(sig) == Part("functionCall", "foo", NoId, NoText, FALSE, sig)

\* a part with thought == true
Thought(sig) == Part("text", "", NoId, <<"c">>, TRUE, sig)

\* turns with calls that bring an id of the client or none, with responses
\* that bring an id or none, with a second function, with signatures just
\* below and at the minimum length, with thoughts, with a text part whose
\* thoughtSignature key holds the empty string
LinkerVocabulary ==
    {Content("model", <<FunctionCall("foo", <<"A">>), FunctionCall("foo", NoId)>>),
     Content("model", <<FunctionCall("foo", NoId)>>),
     Content("user", <<FunctionResponse("foo", NoId)>>),
     Content("user", <<FunctionResponse("foo", NoId),
                       FunctionResponse("foo", NoId)>>),
     Content("model", <<FunctionCall("bar", NoId)>>),
     Content("user", <<FunctionResponse("bar", NoId),
                       FunctionResponse("foo", NoId)>>),
     Content("user", <<FunctionResponse("foo", <<"B">>)>>),
     Content("model", <<SignedCall(Signature(MinSigLen - 1))>>),
     Content("model", <<SignedCall(Signature(MinSigLen))>>),
     Content("model", <<Thought(NoSig)>>),
     Content("model", <<Thought(Signature(MinSigLen))>>),
     Content("model", <<EmptySignature(TextPart(<<"a">>))>>)}

InitLinker ==
    /\ Idle
    /\ \E t \in 0..LinkTurns :
          \E turns \in [1..t -> LinkerVocabulary] :
              input = [hasContents |-> TRUE, contents |-> turns,
                       rest |-> EmptyMap]

\* the process runs on one of the osTypes or on another system
OperatingSystems == {"linux", "freebsd"}

\* Idle but for runtime.GOOS
InitManagers ==
    /\ pc = "start"
    /\ fn = "none"
    /\ modelName = <<>>
    /\ trace = <<>>
    /\ output = EmptyBytes
    /\ running = [c \in Calls |-> IdleCall]
    /\ fm = NewFingerprintManager
    /\ goroutine = [g \in Goroutines |-> IdleGoroutine]
    /\ heap = <<>>
    /\ history = NoHistory
    /\ goos \in OperatingSystems
    /\ managers = [m \in Managers |-> NewManager(m)]
    /\ accountKeys = <<>>
    /\ grouper = IdleGrouper
    /\ rm = NewRefreshManager
    /\ callers = [t \in RefreshCallers |-> IdleCaller]
    /\ refreshers = <<>>
    /\ contexts = <<>>
    /\ journal = <<>>
    /\ input = NoPayload

NextManagers ==
    \E m \in Managers :
        \/ \E g \in ManagerCallers : \E tokenKey \in TokenKeys :
              GetFingerprintOf(m, g, tokenKey)
        \/ \E g \in ManagerCallers : LockedGetFingerprintOf(m, g)
        \/ \E cfg \in ConfigPointers : SetConfigOf(m, cfg)

InitAccountKey ==
    /\ Idle
    /\ input = NoPayload

NextAccountKey ==
    \E clientID \in ClientIDs :
        \E refreshToken \in RefreshTokens :
            AccountKey(clientID, refreshToken)

\* goroutines of one process calling the global RefreshManager
InitRefresh ==
    /\ Idle
    /\ input = NoPayload

NextRefresh ==
    \E t \in RefreshCallers :
        \/ \E c \in RefreshCalls : RefreshCall(t, c[1], c[2], c[3])
        \/ RefreshLock(t)
        \/ InitializeReturn(t)
        \/ StartReturn(t)
        \/ StopReturn(t)
        \/ IsRunningReturn(t)
        \/ UpdateBaseDirReturn(t)
        \/ SetOnTokenRefreshedReturn(t)

Next ==
    \/ \E name \in ModelNames : ConvertGeminiRequestToAntigravity(name)
    \/ \E name \in ModelNames : ConvertGeminiRequestToGemini(name)

Spec == Init /\ [][Next]_vars

SpecTools == InitTools /\ [][Next]_vars

SpecSchema == InitSchema /\ [][Next]_vars

SpecFamily == InitFamily /\ [][NextFamily]_vars

SpecConcurrent == InitConcurrent /\ [][NextConcurrent]_vars

SpecFingerprint == InitFingerprint /\ [][NextFingerprint]_vars

SpecGrouper == InitGrouper /\ [][NextGrouper]_vars

SpecLinker == InitLinker /\ [][Next]_vars

SpecManagers == InitManagers /\ [][NextManagers]_vars

SpecAccountKey == InitAccountKey /\ [][NextAccountKey]_vars

SpecRefresh == InitRefresh /\ [][NextRefresh]_vars

----------------------------------------------------------------------------
(* Reading the trace *)

Ran(name) == \E i \in 1..Len(trace) : trace[i].stage = name

StageIndex(name) == CHOOSE i \in 1..Len(trace) : trace[i].stage = name

\* the conversation a stage was given and the one it left
StageIn(name) ==
    IF StageIndex(name) = 1 THEN input.contents
    ELSE trace[StageIndex(name) - 1].contents

StageOut(name) == trace[StageIndex(name)].contents

RoleOf(contents) == [i \in 1..Len(contents) |-> contents[i].role]

PartsOf(contents) == Concat([i \in 1..Len(contents) |-> contents[i].parts])

ValidRole(role) == role = "user" \/ role = "model"

Opposite(role) == IF role = "user" THEN "model" ELSE "user"

Translated == pc = "done" /\ input.hasContents /\ output.ok

----------------------------------------------------------------------------
(* Role Normalizer *)

\* C7: a turn whose inbound role is empty or not user/model leaves the Role
\* Normalizer with the role opposite to the one of the turn before it, and
\* with user when it is the first turn; so a conversation whose roles are all
\* empty or invalid comes out as user, model, user, ...
C7_InferredRoleAlternates ==
    (pc = "done" /\ Ran("roles")) =>
        LET in == StageIn("roles")
            out == StageOut("roles")
        IN  /\ Len(out) = Len(in)
            /\ \A i \in 1..Len(in) :
                ~ValidRole(in[i].role) =>
                    /\ ValidRole(out[i].role)
                    /\ i = 1 => out[i].role = "user"
                    /\ i > 1 => out[i].role = Opposite(out[i - 1].role)
            /\ (\A i \in 1..Len(in) : ~ValidRole(in[i].role)) =>
                    \A i \in 1..Len(out) :
                        out[i].role = IF i % 2 = 1 THEN "user" ELSE "model"

\* three turns, none with a valid role, one of them empty and one invalid,
\* have been normalised to user, model, user
C7_Witness ==
    /\ pc = "done" /\ Ran("roles")
    /\ Len(StageIn("roles")) = 3
    /\ \A i \in 1..3 : ~ValidRole(StageIn("roles")[i].role)
    /\ \E i, j \in 1..3 : StageIn("roles")[i].role = ""
                          /\ StageIn("roles")[j].role = "x"
    /\ RoleOf(StageOut("roles")) = <<"user", "model", "user">>

\* C8: the Role Normalizer leaves a role that is already user or model as it
\* is, whatever the neighbours, and keeps every turn: no turn is merged,
\* dropped or given other parts.
C8_ValidRolesUntouched ==
    (pc = "done" /\ Ran("roles")) =>
        LET in == StageIn("roles")
            out == StageOut("roles")
        IN  /\ Len(out) = Len(in)
            /\ \A i \in 1..Len(in) :
                /\ out[i].parts = in[i].parts
                /\ ValidRole(in[i].role) => out[i].role = in[i].role

\* two consecutive client-supplied model turns are still two model turns
C8_Witness ==
    /\ pc = "done" /\ Ran("roles")
    /\ \E i \in 1..(Len(StageIn("roles")) - 1) :
        /\ StageIn("roles")[i].role = "model"
        /\ StageIn("roles")[i + 1].role = "model"
        /\ StageOut("roles")[i].role = "model"
        /\ StageOut("roles")[i + 1].role = "model"
        /\ StageOut("roles")[i].parts # <<>>
        /\ StageOut("roles")[i + 1].parts # <<>>

\* C9: in the emitted conversation no two adjacent turns carry the same role.
C9_StrictAlternation ==
    Translated =>
        \A i \in 1..(Len(output.contents) - 1) :
            output.contents[i].role # output.contents[i + 1].role

\* C10: every turn of an emitted payload has role user or model; the
\* function-tagged turns of the Conversation Grouper are not emitted.
C10_OnlyUserAndModelEmitted ==
    Translated =>
        \A i \in 1..Len(output.contents) : ValidRole(output.contents[i].role)

\* the grouper built a function-tagged turn and the translator returned
C10_Witness ==
    /\ Translated /\ fn = "antigravity"
    /\ \E i \in 1..Len(StageOut("group")) : StageOut("group")[i].role = "function"
    /\ Len(output.contents) = Len(StageOut("group"))

----------------------------------------------------------------------------
(* Tool-Call Linker and Conversation Grouper *)

FuncNames == {"foo", "bar"}

IsCallOf(f, part) == HasFunctionCall(part) /\ part.name = f

CallsOf(f, contents) == SelectSeq(PartsOf(contents), LAMBDA p : IsCallOf(f, p))

ResponsesIn(contents) == SelectSeq(PartsOf(contents), HasFunctionResponse)

NumCalls(content) == Len(SelectSeq(content.parts, HasFunctionCall))

NumResponses(content) == Len(SelectSeq(content.parts, HasFunctionResponse))

\* the parts of a conversation in order, each with the turn it is in
Located(contents) ==
    Concat([i \in 1..Len(contents) |->
              [j \in 1..Len(contents[i].parts) |->
                  [turn |-> i, role |-> contents[i].role,
                   part |-> contents[i].parts[j]]]])

Rank(S, x) == Cardinality({y \in S : y <= x})

Nth(S, k) == CHOOSE x \in S : Rank(S, x) = k

Occurrences(part, contents) ==
    Cardinality({i \in 1..Len(PartsOf(contents)) : PartsOf(contents)[i] = part})

\* the responses that came without an id, by place among the responses
IdlessResponsesOf(f, responses) ==
    {j \in 1..Len(responses) :
        responses[j].name = f /\ responses[j].id = NoId}

\* C1: in the payload ConvertGeminiRequestToAntigravity emits, the k-th
\* functionResponse for f that arrived without an id carries the id of the
\* k-th functionCall for f, whenever that call exists; a model turn calling
\* foo followed by a turn answering foo ends with a non-empty functionCall.id
\* and the same functionResponse.id.  (The grouper keeps the responses in
\* order, so the j-th response emitted is the j-th response received.)
C1_ResponseCarriesIdOfItsCall ==
    (Translated /\ fn = "antigravity") =>
        LET received == ResponsesIn(input.contents)
            emitted == ResponsesIn(output.contents)
        IN  /\ \A f \in FuncNames :
                \A j \in IdlessResponsesOf(f, received) :
                    LET k == Rank(IdlessResponsesOf(f, received), j)
                        calls == CallsOf(f, output.contents)
                    IN  (j <= Len(emitted) /\ k <= Len(calls)) =>
                            emitted[j].id = calls[k].id
            /\ (/\ Len(input.contents) = 2
                /\ input.contents[1] = Content("model", <<FunctionCall("foo", NoId)>>)
                /\ input.contents[2].parts = <<FunctionResponse("foo", NoId)>>) =>
                    /\ Len(CallsOf("foo", output.contents)) = 1
                    /\ Len(emitted) = 1
                    /\ CallsOf("foo", output.contents)[1].id # NoId
                    /\ emitted[1].id = CallsOf("foo", output.contents)[1].id

\* C2: after either translator has rewritten a payload that has contents,
\* every functionCall part in every turn of the output carries a non-empty id.
C2_EveryCallHasId ==
    Translated =>
        \A i \in 1..Len(PartsOf(output.contents)) :
            HasFunctionCall(PartsOf(output.contents)[i]) =>
                PartsOf(output.contents)[i].id # NoId

\* C2, amended: after either translator has rewritten a payload that has
\* contents, every functionCall part in every model turn of the output
\* carries a non-empty id.
C2_EveryModelTurnCallHasId ==
    Translated =>
        \A i \in 1..Len(Located(output.contents)) :
            LET at == Located(output.contents)[i]
            IN  (at.role = "model" /\ HasFunctionCall(at.part)) =>
                    at.part.id # NoId

\* a call without an id, in a turn whose role had to be inferred as model,
\* has been given a generated id
C2_Witness ==
    /\ Translated
    /\ \E i \in 1..Len(output.contents) :
        /\ StageIn("roles")[i].role = ""
        /\ output.contents[i].role = "model"
        /\ \E j \in 1..Len(output.contents[i].parts) :
            /\ StageIn("roles")[i].parts[j] = FunctionCall("foo", NoId)
            /\ HasFunctionCall(output.contents[i].parts[j])
            /\ output.contents[i].parts[j].id = generateToolID(1)

\* C3: when no call and no response carries an id and the n calls to a
\* function in model turns are followed later by the n responses to it in
\* user turns, the Tool-Call Linker gives response i the id of call i, and
\* never the id of another call.
C3_FifoPairing ==
    (pc = "done" /\ Ran("link")) =>
        LET in == Located(StageIn("link"))
            out == Located(StageOut("link"))
        IN  \A f \in FuncNames :
            LET calls == {p \in 1..Len(in) :
                            in[p].role = "model" /\ IsCallOf(f, in[p].part)}
                responses == {p \in 1..Len(in) :
                                /\ in[p].role = "user"
                                /\ HasFunctionResponse(in[p].part)
                                /\ in[p].part.name = f}
            IN  (/\ \A p \in 1..Len(in) : in[p].part.id = NoId
                 /\ calls # {}
                 /\ Cardinality(calls) = Cardinality(responses)
                 /\ \A c \in calls, r \in responses : in[c].turn < in[r].turn) =>
                    /\ Len(out) = Len(in)
                    /\ \A r \in responses :
                        LET c == Nth(calls, Rank(responses, r))
                        IN  /\ out[r].part.id # NoId
                            /\ out[r].part.id = out[c].part.id
                            /\ \A d \in calls \ {c} :
                                    out[d].part.id # out[r].part.id

\* ConvertGeminiRequestToGemini has linked two calls to foo, made in model
\* turns, with the two responses that follow them in user turns
C3_Witness ==
    /\ pc = "done" /\ fn = "gemini" /\ Ran("link")
    /\ LET in == Located(StageIn("link"))
           out == Located(StageOut("link"))
       IN  /\ Len(in) = 4
           /\ \A p \in 1..2 : in[p].role = "model" /\ IsCallOf("foo", in[p].part)
           /\ \A p \in 3..4 : /\ in[p].role = "user"
                              /\ in[p].part = FunctionResponse("foo", NoId)
           /\ out[3].part.id = out[1].part.id
           /\ out[4].part.id = out[2].part.id
           /\ out[1].part.id # out[2].part.id

\* C4: every part of every turn given to fixCLIToolResponse is in the
\* conversation it returns: the multiset of parts is the same before and
\* after grouping.
C4_NoPartDropped ==
    (pc = "done" /\ Ran("group")) =>
        \A part \in PartVocabulary :
            Occurrences(part, StageOut("group")) = Occurrences(part, StageIn("group"))

\* C5: a grouping turn in the output of fixCLIToolResponse comes right after
\* a model turn with functionCall parts and holds as many functionResponse
\* parts as that turn has functionCall parts.
C5_GroupAnswersPrecedingTurn ==
    (pc = "done" /\ Ran("group")) =>
        LET out == StageOut("group")
        IN  \A i \in 1..Len(out) :
                out[i].role = "function" =>
                    /\ i > 1
                    /\ out[i - 1].role = "model"
                    /\ NumCalls(out[i - 1]) > 0
                    /\ NumResponses(out[i]) = NumCalls(out[i - 1])

\* C6: when one model turn issues N calls, no other model turn bears a call
\* and the N responses of the conversation come in later turns,
\* fixCLIToolResponse emits exactly one grouping turn, holding the N
\* responses in the order they came; the number of functionResponse parts
\* is the same before and after.
C6_OneGroupForSpreadResponses ==
    grouper.pc = "done" =>
        LET in == input.contents
            out == grouper.st.contents
            callTurns == {i \in 1..Len(in) :
                            in[i].role = "model" /\ NumCalls(in[i]) > 0}
            responseTurns == {i \in 1..Len(in) : NumResponses(in[i]) > 0}
            groupTurns == {i \in 1..Len(out) : out[i].role = "function"}
        IN  (/\ Cardinality(callTurns) = 1
             /\ responseTurns # {}
             /\ \A m \in callTurns :
                    /\ \A r \in responseTurns : r > m
                    /\ Len(ResponsesIn(in)) = NumCalls(in[m])) =>
                /\ Cardinality(groupTurns) = 1
                /\ \A g \in groupTurns : out[g].parts = ResponsesIn(in)
                /\ Len(ResponsesIn(out)) = Len(ResponsesIn(in))

\* a model turn with two calls, then two turns with one response each, the
\* responses told apart by their ids, have been grouped into the model turn
\* and one grouping turn holding the two responses in the order they came
C6_Witness ==
    /\ grouper.pc = "done"
    /\ Len(input.contents) = 3
    /\ input.contents[1].role = "model"
    /\ NumCalls(input.contents[1]) = 2
    /\ NumResponses(input.contents[2]) = 1
    /\ NumResponses(input.contents[3]) = 1
    /\ input.contents[2].parts # input.contents[3].parts
    /\ Len(grouper.st.contents) = 2
    /\ grouper.st.contents[2].role = "function"
    /\ grouper.st.contents[2].parts =
          input.contents[2].parts \o input.contents[3].parts

----------------------------------------------------------------------------
(* The payload without contents *)

\* C11: when the payload has no contents, ConvertGeminiRequestToAntigravity
\* hands its caller an error, which no call on a payload with contents
\* does, so the caller can tell the failure from a rewritten payload; and
\* no stage has run on the payload: no key is renamed, no role, id or
\* sentinel written, no safety settings attached.
C11_ExplicitErrorOutcome ==
    (pc = "done" /\ fn = "antigravity") =>
        /\ (output.err # NoError) <=> ~input.hasContents
        /\ ~input.hasContents =>
               /\ trace = <<>>
               /\ output.contents = <<>>
               /\ output.rest = EmptyMap

\* C12: when the payload has no contents, ConvertGeminiRequestToGemini
\* succeeds, runs no stage over the conversation and returns the payload
\* with every key it had under the same name and value, adding nothing but
\* safetySettings.
C12_NoContentsOnlySafetyDefault ==
    (pc = "done" /\ fn = "gemini" /\ ~input.hasContents) =>
        /\ output.ok
        /\ trace = <<>>
        /\ output.contents = <<>>
        /\ DOMAIN output.rest = (DOMAIN input.rest) \cup {"safetySettings"}
        /\ \A key \in DOMAIN input.rest : output.rest[key] = input.rest[key]

C12_Witness ==
    /\ pc = "done"
    /\ fn = "gemini"
    /\ ~input.hasContents
    /\ Exists(input.rest, "tools")
    /\ \E i \in 1..Len(input.rest["tools"]) :
          /\ Exists(input.rest["tools"][i], "functionDeclarations")
          /\ \E j \in 1..Len(input.rest["tools"][i]["functionDeclarations"]) :
                Exists(input.rest["tools"][i]["functionDeclarations"][j],
                       "parameters")
    /\ Exists(input.rest, "generationConfig")
    /\ Exists(input.rest["generationConfig"], "responseSchema")
    /\ ~Exists(input.rest, "safetySettings")
    /\ output.rest["tools"] = input.rest["tools"]
    /\ output.rest["safetySettings"] = "default"

----------------------------------------------------------------------------
(* The Schema & Field Adapter *)

\* after is before with the value of source moved to target, if it had one
Renamed(before, after, source, target) ==
    IF Exists(before, source)
    THEN /\ ~Exists(after, source)
         /\ Exists(after, target)
         /\ after[target] = before[source]
         /\ \A key \in (DOMAIN before) \ {source, target} :
               Exists(after, key) /\ after[key] = before[key]
         /\ DOMAIN after = ((DOMAIN before) \ {source}) \cup {target}
    ELSE after = before

\* the same number of declarations, each with parameters renamed
ParametersRenamed(before, after) ==
    /\ Len(after) = Len(before)
    /\ \A j \in 1..Len(before) :
          Renamed(before[j], after[j], "parameters", "parametersJsonSchema")

\* the key the declarations of a tool are under after the translator fn
DeclarationsKey(translator, tool) ==
    IF Exists(tool, "function_declarations") THEN "function_declarations"
    ELSE IF translator = "gemini" /\ Exists(tool, "functionDeclarations")
    THEN "functionDeclarations"
    ELSE "none"

ToolRenamed(translator, before, after) ==
    LET key == DeclarationsKey(translator, before)
    IN IF key = "none" THEN after = before
       ELSE /\ DOMAIN after
                 = ((DOMAIN before) \ {key}) \cup {"function_declarations"}
            /\ ParametersRenamed(before[key], after["function_declarations"])
            /\ \A other \in (DOMAIN before) \ {key, "function_declarations"} :
                  after[other] = before[other]

ToolsRenamed(translator, before, after) ==
    /\ Exists(before, "tools") <=> Exists(after, "tools")
    /\ Exists(before, "tools") =>
          /\ Len(after["tools"]) = Len(before["tools"])
          /\ \A i \in 1..Len(before["tools"]) :
                ToolRenamed(translator, before["tools"][i], after["tools"][i])

\* the object reduced to the keys named
Only(object, keys) == [k \in (DOMAIN object) \cap keys |-> object[k]]

SystemInstructionKeys == {"system_instruction", "systemInstruction"}

ConfigOf(rest) ==
    IF Exists(rest, "generationConfig") THEN rest["generationConfig"]
    ELSE EmptyMap

\* every rename of the four whose source key is in the input
EveryRenameApplied(before, after) ==
    /\ Exists(before, "tools") =>
          /\ Exists(after, "tools")
          /\ Len(after["tools"]) = Len(before["tools"])
          /\ \A i \in 1..Len(before["tools"]) :
                ToolRenamed("gemini", before["tools"][i], after["tools"][i])
    /\ Renamed(ConfigOf(before), ConfigOf(after),
               "responseSchema", "responseJsonSchema")
    /\ Exists(before, "system_instruction") =>
          /\ ~Exists(after, "system_instruction")
          /\ Exists(after, "systemInstruction")
          /\ after["systemInstruction"] = before["system_instruction"]

\* C13 as claimed: whichever translator returned a payload, and whether or
\* not the payload has contents, each of the four renames whose source key
\* is in the input has been applied to the output: the target key holds the
\* value, the source key is gone.
C13_EveryRenameAlwaysApplied ==
    (pc = "done" /\ output.ok) => EveryRenameApplied(input.rest, output.rest)

\* C13 amended: on a payload with contents each translator applies its own
\* renames, each wherever its source key is present and whatever the other
\* keys: ConvertGeminiRequestToGemini functionDeclarations ->
\* function_declarations, parameters -> parametersJsonSchema under either,
\* and responseSchema -> responseJsonSchema, leaving system_instruction;
\* ConvertGeminiRequestToAntigravity system_instruction ->
\* systemInstruction and parameters -> parametersJsonSchema under
\* function_declarations only, leaving functionDeclarations and
\* responseSchema.  The target holds the value of the source, the source is
\* gone, and nothing else but safetySettings differs.
C13_OwnRenamesWithContents ==
    Translated =>
        /\ ToolsRenamed(fn, input.rest, output.rest)
        /\ Exists(input.rest, "generationConfig")
             <=> Exists(output.rest, "generationConfig")
        /\ IF fn = "gemini"
           THEN /\ Renamed(ConfigOf(input.rest), ConfigOf(output.rest),
                           "responseSchema", "responseJsonSchema")
                /\ Only(output.rest, SystemInstructionKeys)
                     = Only(input.rest, SystemInstructionKeys)
           ELSE /\ ConfigOf(output.rest) = ConfigOf(input.rest)
                /\ Renamed(Only(input.rest, SystemInstructionKeys),
                           Only(output.rest, SystemInstructionKeys),
                           "system_instruction", "systemInstruction")
        /\ DOMAIN output.rest \subseteq
             SystemInstructionKeys
               \cup {"tools", "generationConfig", "safetySettings"}

C13_Witness ==
    /\ Translated
    /\ fn = "gemini"
    /\ Exists(input.rest, "tools")
    /\ Len(input.rest["tools"]) = 2
    /\ Exists(input.rest["tools"][1], "functionDeclarations")
    /\ Exists(input.rest["tools"][2], "function_declarations")
    /\ Len(input.rest["tools"][1]["functionDeclarations"]) = 1
    /\ Len(input.rest["tools"][2]["function_declarations"]) = 1
    /\ Exists(input.rest["tools"][1]["functionDeclarations"][1], "parameters")
    /\ Exists(input.rest["tools"][2]["function_declarations"][1], "parameters")
    /\ Exists(ConfigOf(input.rest), "responseSchema")
    /\ output.rest["tools"][1]["function_declarations"][1]["parametersJsonSchema"]
         = <<"schema", 1>>
    /\ output.rest["tools"][2]["function_declarations"][1]["parametersJsonSchema"]
         = <<"schema", 2>>
    /\ ConfigOf(output.rest)["responseJsonSchema"] = "json"

----------------------------------------------------------------------------
(* The Prefill Adapter and the Reasoning-Trace Adapter *)

\* the model identifier contains claude, in lower case
ClaudeFamily == Contains(modelName, claude)

\* the texts of the parts, in order, as one text
RECURSIVE TextOf(_)
TextOf(parts) ==
    IF parts = <<>> THEN <<>> ELSE Head(parts).text \o TextOf(Tail(parts))

NoCallIn(content) ==
    \A p \in 1..Len(content.parts) : content.parts[p].kind # "functionCall"

\* the Prefill Adapter was given a conversation ending in a model turn
\* without functionCall
TrailingPrefill ==
    /\ Translated
    /\ fn = "antigravity"
    /\ StageIn("prefill") # <<>>
    /\ StageIn("prefill")[Len(StageIn("prefill"))].role = "model"
    /\ NoCallIn(StageIn("prefill")[Len(StageIn("prefill"))])

\* C14: for a Claude model the Prefill Adapter, given a conversation whose
\* last turn is a model turn without functionCall, leaves the turns before
\* it as they are, removes it, and appends one user turn with the single
\* text part "Continue from: " + T when the texts T of its parts, joined in
\* order, are not empty; it appends nothing when T is empty.
C14_PrefillBecomesContinuation ==
    (TrailingPrefill /\ ClaudeFamily) =>
        LET before == StageIn("prefill")
            earlier == SubSeq(before, 1, Len(before) - 1)
            T == TextOf(before[Len(before)].parts)
        IN StageOut("prefill") =
             IF T = <<>> THEN earlier
             ELSE Append(earlier,
                         [role |-> "user",
                          parts |-> <<TextPart(<<"Continue from: ">> \o T)>>])

C14_Witness ==
    /\ TrailingPrefill
    /\ ClaudeFamily
    /\ Len(StageIn("prefill")) = 2
    /\ StageIn("prefill")[2].parts = <<TextPart(<<"b">>), TextPart(<<"a">>)>>
    /\ StageOut("prefill")[1] = StageIn("prefill")[1]
    /\ StageOut("prefill")[2] =
         Content("user", <<TextPart(<<"Continue from: ", "b", "a">>)>>)

\* C15: the Prefill Adapter leaves the conversation as it is when the model
\* is not a Claude model, or the conversation does not end in a model turn,
\* or its last turn holds a functionCall part.
C15_PrefillLeavesOtherConversations ==
    (Translated /\ fn = "antigravity" /\ ~(TrailingPrefill /\ ClaudeFamily))
        => StageOut("prefill") = StageIn("prefill")

C15_Witness ==
    /\ Translated
    /\ fn = "antigravity"
    /\ ClaudeFamily
    /\ StageIn("prefill") # <<>>
    /\ StageIn("prefill")[Len(StageIn("prefill"))].role = "model"
    /\ ~NoCallIn(StageIn("prefill")[Len(StageIn("prefill"))])
    /\ StageOut("prefill") = StageIn("prefill")

\* <<turn, part>> of every part of a conversation
PlacesOf(contents) ==
    UNION {{<<i, p>> : p \in 1..Len(contents[i].parts)} :
             i \in 1..Len(contents)}

\* the parts of model turns that reach the Reasoning-Trace Adapter as a
\* functionCall without thoughtSignature
UnsignedCalls ==
    {at \in PlacesOf(StageIn("signature")) :
        /\ StageIn("signature")[at[1]].role = "model"
        /\ StageIn("signature")[at[1]].parts[at[2]].kind = "functionCall"
        /\ StageIn("signature")[at[1]].parts[at[2]].thoughtSignature = NoSig}

\* C16: ConvertGeminiRequestToAntigravity returns every functionCall part
\* of a model turn that had no thoughtSignature with the sentinel
\* skip_thought_signature_validator when the model is not a Claude model,
\* and without thoughtSignature when it is.
C16_SentinelForNonClaudeOnly ==
    (Translated /\ fn = "antigravity") =>
        \A at \in UnsignedCalls :
            output.contents[at[1]].parts[at[2]].thoughtSignature
              = IF ClaudeFamily THEN NoSig ELSE skipSentinel

C16_Witness ==
    /\ Translated
    /\ fn = "antigravity"
    /\ Contains(modelName, gemini)
    /\ \E at \in UnsignedCalls :
          output.contents[at[1]].parts[at[2]].thoughtSignature = skipSentinel

\* what the two adapters do for a model of the Claude family, and for one
\* that is not: the trailing prefill turn is rewritten or kept, the
\* unsigned calls are left unsigned or given the sentinel
TreatedAsClaude(family) ==
    /\ (TrailingPrefill /\ family)
          => StageOut("prefill") # StageIn("prefill")
    /\ ~family => StageOut("prefill") = StageIn("prefill")
    /\ \A at \in UnsignedCalls :
          StageOut("signature")[at[1]].parts[at[2]].thoughtSignature
            = IF family THEN NoSig ELSE skipSentinel

\* C17 as claimed: a model is treated as Claude by both adapters exactly
\* when its identifier contains claude in any letter case.
C17_FamilyIgnoresLetterCase ==
    (Translated /\ fn = "antigravity") =>
        TreatedAsClaude(Contains(ToLower(modelName), claude))

\* C17 amended: a model is treated as Claude by both adapters exactly when
\* its identifier contains claude in lower case; an identifier that has it
\* in another letter case is treated as not Claude by both.
C17_FamilyIsLowerCaseClaude ==
    (Translated /\ fn = "antigravity") =>
        TreatedAsClaude(Contains(modelName, claude))

C17_Witness ==
    /\ TrailingPrefill
    /\ modelName = <<"C", "L", "A", "U", "D", "E", "-", "4">>
    /\ StageOut("prefill") = StageIn("prefill")
    /\ UnsignedCalls # {}
    /\ \A at \in UnsignedCalls :
          output.contents[at[1]].parts[at[2]].thoughtSignature = skipSentinel

----------------------------------------------------------------------------
(* What ConvertGeminiRequestToGemini leaves alone *)

\* C19: ConvertGeminiRequestToGemini returns the payload it was given but
\* for the roles it wrote on turns whose role was missing or invalid: the
\* parts of every turn (their ids and thoughtSignature values too), the
\* valid roles, and every other key of the payload are as they came.
C19_GeminiWritesOnlyRoles ==
    (pc = "done" /\ fn = "gemini") =>
        /\ Len(output.contents) = Len(input.contents)
        /\ \A i \in 1..Len(input.contents) :
              /\ output.contents[i].parts = input.contents[i].parts
              /\ ValidRole(input.contents[i].role)
                    => output.contents[i].role = input.contents[i].role
        /\ Delete(output.rest, "safetySettings")
              = Delete(input.rest, "safetySettings")

----------------------------------------------------------------------------
(* Calls running side by side *)

\* what a translator returns for a payload when no other call is running
Alone(translator, name, payload) ==
    IF translator = "gemini"
    THEN [ok |-> TRUE, err |-> NoError,
          contents |-> Emitted(GeminiStages(name, payload), payload),
          rest |-> GeminiRest(payload)]
    ELSE IF payload.hasContents
    THEN [ok |-> TRUE, err |-> NoError,
          contents |-> Emitted(AntigravityStages(name, payload), payload),
          rest |-> AntigravityRest(payload)]
    ELSE EmptyBytes

\* C18: however the stages of two calls interleave, a call that has
\* returned has returned what its translator returns for its payload and
\* model name when run alone; the n-th id a call generates is the same
\* value in both runs, so the outputs are equal and not only alike.
C18_CallsDoNotInterfere ==
    \A c \in Calls :
        running[c].pc = "done" =>
            running[c].output
              = Alone(running[c].fn, running[c].modelName, running[c].input)

\* c2 ran its linker after c1 had registered a call of foo, and returned
\* its response to foo without an id
C18_Witness ==
    /\ running["c1"].pc = "signature"
    /\ running["c1"].input.contents
         = <<Content("model", <<FunctionCall("foo", NoId)>>)>>
    /\ running["c2"].pc = "done"
    /\ running["c2"].fn = "gemini"
    /\ running["c2"].linkedAfter = {"c1"}
    /\ running["c2"].input.contents
         = <<Content("user", <<FunctionResponse("foo", NoId)>>)>>
    /\ running["c2"].output.ok
    /\ running["c2"].output.contents[1].parts[1].id = NoId

----------------------------------------------------------------------------
(* FingerprintManager *)

\* the fingerprints generated for a key since the last SetConfig
GeneratedFor(tokenKey) ==
    {p \in 1..Len(heap) : /\ heap[p].tokenKey = tokenKey
                          /\ heap[p].epoch = history.epoch}

\* C20: however the GetFingerprint calls of the goroutines interleave, the
\* calls that began and returned with no SetConfig taking effect in between
\* have returned the same pointer for the same key; that Fingerprint is the
\* only one generated for the key in that time, and it is the one cached.
C20_OneFingerprintPerKey ==
    /\ \A tokenKey \in TokenKeys : Cardinality(GeneratedFor(tokenKey)) <= 1
    /\ \A r \in history.returned :
          /\ GeneratedFor(r[1]) = {r[2]}
          /\ Cached(fm, r[1]) = r[2]

\* a call has returned the fingerprint of token1; g2, which did not find
\* it under the read lock, has found it under the write lock
C20_Witness ==
    /\ goroutine["g2"].pc = "Unlock"
    /\ goroutine["g2"].tokenKey = "token1"
    /\ goroutine["g2"].since = history.epoch
    /\ <<"token1", goroutine["g2"].fp>> \in history.returned

\* C21: the cache holds only fingerprints generated since the last
\* SetConfig took effect, from the config it set; a GetFingerprint call
\* holds, and so returns, a fingerprint no older than the config that was
\* current when the call began, and the calls that began and returned since
\* the last SetConfig have returned fingerprints generated from its config,
\* for keys cached before it as for new ones.
C21_CacheFollowsConfig ==
    /\ \A tokenKey \in DOMAIN fm.fingerprints :
          /\ heap[fm.fingerprints[tokenKey]].epoch = history.epoch
          /\ heap[fm.fingerprints[tokenKey]].config = fm.config
          /\ heap[fm.fingerprints[tokenKey]].tokenKey = tokenKey
    /\ \A g \in Goroutines :
          goroutine[g].fp # nil =>
              heap[goroutine[g].fp].epoch >= goroutine[g].since
    /\ \A r \in history.returned : heap[r[2]].config = fm.config

\* token1 had a fingerprint without config; after SetConfig(cfg1) returned
\* a call has returned another one for it, generated from cfg1
C21_Witness ==
    /\ history.epoch = 1
    /\ fm.config = "cfg1"
    /\ fm.mu.writer = "none"
    /\ \E old \in 1..Len(heap) :
          /\ heap[old].tokenKey = "token1"
          /\ heap[old].config = "nil"
          /\ \E r \in history.returned :
                /\ r[1] = "token1"
                /\ r[2] # old
                /\ heap[r[2]].config = "cfg1"

----------------------------------------------------------------------------
(* Fingerprint content and account keys *)

NoConfig(m) == managers[m].config = <<>>

\* C22: with no config set, two managers hold, for a key both have been
\* asked for, fingerprints equal in KiroHash, OSType, OSVersion, KiroVersion
\* and NodeVersion, whatever else either has been asked for or configured
\* with before.
C22_FingerprintDependsOnKeyAlone ==
    \A m1 \in Managers : \A m2 \in Managers : \A tokenKey \in TokenKeys :
        (/\ NoConfig(m1) /\ NoConfig(m2)
         /\ tokenKey \in DOMAIN managers[m1].fingerprints
         /\ tokenKey \in DOMAIN managers[m2].fingerprints)
        => LET fp1 == managers[m1].fingerprints[tokenKey]
               fp2 == managers[m2].fingerprints[tokenKey]
           IN  /\ fp1.KiroHash = fp2.KiroHash
               /\ fp1.OSType = fp2.OSType
               /\ fp1.OSVersion = fp2.OSVersion
               /\ fp1.KiroVersion = fp2.KiroVersion
               /\ fp1.NodeVersion = fp2.NodeVersion

\* fm1 has drawn from its own generator under a config and is without
\* config again, fm2 was asked for token2 and never configured; both hold
\* a fingerprint for token1
C22_Witness ==
    /\ NoConfig("fm1") /\ NoConfig("fm2")
    /\ managers["fm1"].rng.draws > 0
    /\ managers["fm2"].sets = 0
    /\ DOMAIN managers["fm1"].fingerprints = {"token1"}
    /\ DOMAIN managers["fm2"].fingerprints = {"token1", "token2"}

\* C23: GetAccountKey returns GenerateAccountKey(clientID) when clientID is
\* not empty, else GenerateAccountKey(refreshToken) when refreshToken is not
\* empty, else the key of a random value; two calls with the same inputs,
\* one of them not empty, return the same key.
C23_AccountKeyPriority ==
    /\ \A i \in 1..Len(accountKeys) :
          LET call == accountKeys[i]
          IN  /\ call.clientID # ""
                    => call.key = GenerateAccountKey(call.clientID)
              /\ (call.clientID = "" /\ call.refreshToken # "")
                    => call.key = GenerateAccountKey(call.refreshToken)
              /\ (call.clientID = "" /\ call.refreshToken = "")
                    => \E random \in UUIDs :
                          call.key = GenerateAccountKey(random)
    /\ \A i \in 1..Len(accountKeys) : \A j \in 1..Len(accountKeys) :
          (/\ accountKeys[i].clientID = accountKeys[j].clientID
           /\ accountKeys[i].refreshToken = accountKeys[j].refreshToken
           /\ (accountKeys[i].clientID # "" \/ accountKeys[i].refreshToken # ""))
          => accountKeys[i].key = accountKeys[j].key

\* two calls with both inputs given, the same ones
C23_Witness ==
    /\ Len(accountKeys) = 2
    /\ accountKeys[1].clientID = "client-id-123"
    /\ accountKeys[1].refreshToken = "refresh-token-456"
    /\ accountKeys[2].clientID = "client-id-123"
    /\ accountKeys[2].refreshToken = "refresh-token-456"
    /\ accountKeys[1].key = GenerateAccountKey("client-id-123")

----------------------------------------------------------------------------
(* The order of the stages *)

\* the conversation after the stages named, each applied to the result of
\* the one before
RECURSIVE InOrder(_, _, _)
InOrder(stages, name, contents) ==
    IF stages = <<>> THEN contents
    ELSE LET rest == InOrder(Tail(stages), name, contents)
             first == Head(stages)
         IN  CASE first = "group" -> fixCLIToolResponse(rest)
               [] first = "roles" -> NormalizeRoles(rest)
               [] first = "prefill" -> AdaptPrefill(name, rest)
               [] first = "link" -> AntigravityLink(rest)
               [] first = "signature" -> AdaptSignatures(name, rest)

AntigravityReturned == pc = "done" /\ fn = "antigravity" /\ output.ok

\* C24: the conversation returned by ConvertGeminiRequestToAntigravity is
\* the one that role normalization, prefill adaptation, call linking,
\* signature adaptation and then grouping produce, in that order, and the
\* grouper runs after the role normalizer and after the linker.
C24_GrouperRunsLast ==
    AntigravityReturned =>
        /\ output.contents =
              InOrder(<<"group", "signature", "link", "prefill", "roles">>,
                      modelName, input.contents)
        /\ StageIndex("roles") < StageIndex("group")
        /\ StageIndex("link") < StageIndex("group")

----------------------------------------------------------------------------
(* The registry of the Tool-Call Linker *)

\* the local maps of the id walk when it ended, and what it read and wrote
Linked == pc = "done" /\ Ran("link")

LinkingDone ==
    LinkFrom(fn = "gemini", NewLinking(StageIn("link")), StageIn("link"), 1, 1)

\* the places of the calls to f in model turns, in the order of the walk
ModelCalls(f) ==
    {p \in 1..Len(Located(StageIn("link"))) :
        /\ Located(StageIn("link"))[p].role = "model"
        /\ IsCallOf(f, Located(StageIn("link"))[p].part)}

\* the places of the responses to f without id in the turns the walk reads
ReadResponses(f) ==
    {p \in 1..Len(Located(StageIn("link"))) :
        LET at == Located(StageIn("link"))[p]
        IN  /\ at.role = "user" \/ (fn = "antigravity" /\ at.role = "function")
            /\ HasFunctionResponse(at.part)
            /\ at.part.name = f
            /\ at.part.id = NoId}

\* C25: in both translators every functionCall part of a model turn, with
\* or without an id of its own, is recorded in the registry at (name,
\* callsIssued[name]) and advances callsIssued[name]; so after the calls
\* [foo with id A, foo without id] and two responses to foo without id, the
\* first response carries A and the second the id generated for the second
\* call.
C25_CallsWithIdAreRegistered ==
    Linked =>
        /\ \A f \in FuncNames :
              /\ Count(LinkingDone.callCount, f) = Cardinality(ModelCalls(f))
              /\ \A p \in ModelCalls(f) :
                    LET key == callKey(f, Rank(ModelCalls(f), p) - 1)
                    IN  /\ key \in DOMAIN LinkingDone.toolIDMap
                        /\ LinkingDone.toolIDMap[key] =
                              Located(StageOut("link"))[p].part.id
        /\ (/\ Len(StageIn("link")) = 2
            /\ StageIn("link")[1] =
                  Content("model", <<FunctionCall("foo", <<"A">>),
                                     FunctionCall("foo", NoId)>>)
            /\ StageIn("link")[2] =
                  Content("user", <<FunctionResponse("foo", NoId),
                                    FunctionResponse("foo", NoId)>>))
           => /\ StageOut("link")[2].parts[1].id = <<"A">>
              /\ StageOut("link")[2].parts[2].id # NoId
              /\ StageOut("link")[2].parts[2].id =
                    StageOut("link")[1].parts[2].id

\* C26: responsesConsumed[name] counts the responses without id whose
\* lookup found a call, and no others: a response whose lookup misses
\* keeps its empty id and leaves the counter where it was.
C26_MissLeavesCounter ==
    Linked =>
        \A f \in FuncNames :
            Count(LinkingDone.respCount, f) =
                Cardinality({p \in ReadResponses(f) :
                                Located(StageOut("link"))[p].part.id # NoId})

\* the rewriting of thoughtSignature is in the signature stage of
\* ConvertGeminiRequestToAntigravity and in the id walk of
\* ConvertGeminiRequestToGemini
SignatureStage == IF fn = "gemini" THEN "link" ELSE "signature"

\* C27: for a model that is not Claude, both translators write the sentinel
\* over the thoughtSignature of a functionCall part of a model turn exactly
\* when it is empty or shorter than 50 characters, leave one of 50 or more
\* as it is, and write the sentinel on every part of a model turn with
\* thought == true.
C27_SentinelBelowMinimumLength ==
    (pc = "done" /\ output.ok /\ ~IsClaude(modelName) /\ Ran(SignatureStage)) =>
        \A at \in PlacesOf(StageIn(SignatureStage)) :
            LET turn == StageIn(SignatureStage)[at[1]]
                before == turn.parts[at[2]]
                after == StageOut(SignatureStage)[at[1]].parts[at[2]]
            IN  turn.role = "model" =>
                    /\ (HasFunctionCall(before) /\ ~before.thought) =>
                          after.thoughtSignature =
                              IF Len(before.thoughtSignature) < MinSigLen
                              THEN skipSentinel
                              ELSE before.thoughtSignature
                    /\ before.thought => after.thoughtSignature = skipSentinel

----------------------------------------------------------------------------
(* The Conversation Grouper, scan by scan *)

Scans(during) ==
    {k \in 1..Len(grouper.scans) : grouper.scans[k].during = during}

\* the groups of a scan that the buffer of the scan satisfies
SatisfiedIn(scan) ==
    {g \in 1..Len(scan.pendingGroups) :
        scan.pendingGroups[g].ResponsesNeeded <= Len(scan.collectedResponses)}

\* C28: the scan made for one response-bearing turn closes at most one
\* pending group and emits at most one grouping turn, however many groups
\* the buffer satisfies.
C28_OneGroupPerTurn ==
    \A k \in Scans("turn") :
        /\ Len(grouper.scans[k].closed) <= 1
        /\ Len(grouper.scans[k].emitted) <= 1
        /\ \A j \in Scans("turn") :
              grouper.scans[j].at = grouper.scans[k].at => j = k

\* the buffer satisfied two pending groups and one was closed
C28_Witness ==
    \E k \in Scans("turn") :
        /\ Cardinality(SatisfiedIn(grouper.scans[k])) = 2
        /\ Len(grouper.scans[k].closed) = 1
        /\ Len(grouper.scans[k].emitted) = 1

\* C29: the scan made for a response-bearing turn closes, of the pending
\* groups the buffer satisfies, the one created last; the flush examines
\* the groups left in the order of their creation, each once, and closes a
\* group exactly when the buffer then holds at least the responses it needs.
C29_NewestFirstThenOldestFirst ==
    /\ \A k \in Scans("turn") :
          LET scan == grouper.scans[k]
          IN  /\ \A g \in 1..Len(scan.pendingGroups) :
                    \A h \in 1..Len(scan.pendingGroups) :
                       g < h => scan.pendingGroups[g].place
                                  < scan.pendingGroups[h].place
              /\ SatisfiedIn(scan) # {} =>
                    /\ Len(scan.closed) = 1
                    /\ scan.closed[1] \in
                          {scan.pendingGroups[g] : g \in SatisfiedIn(scan)}
                    /\ \A g \in SatisfiedIn(scan) :
                          scan.pendingGroups[g].place <= scan.closed[1].place
              /\ SatisfiedIn(scan) = {} => scan.closed = <<>>
    /\ \A k \in Scans("flush") :
          LET scan == grouper.scans[k]
          IN  /\ scan.closed # <<>> <=> SatisfiedIn(scan) # {}
              /\ scan.at = Cardinality({j \in Scans("flush") : j <= k})
              /\ \A j \in Scans("flush") :
                    j < k => grouper.scans[j].pendingGroups[1].place
                               < scan.pendingGroups[1].place
              /\ \A j \in Scans("turn") : j < k
    /\ grouper.pc = "done" =>
          Cardinality(Scans("flush")) = Len(grouper.st.pendingGroups)

\* of two groups the buffer satisfied, the newer was closed by the scan of
\* the turn and the older by the flush
C29_Witness ==
    /\ grouper.pc = "done"
    /\ \E k \in Scans("turn") :
          /\ Cardinality(SatisfiedIn(grouper.scans[k])) = 2
          /\ Len(grouper.scans[k].pendingGroups) = 2
          /\ grouper.scans[k].closed = <<grouper.scans[k].pendingGroups[2]>>
          /\ \E j \in Scans("flush") :
                grouper.scans[j].closed = <<grouper.scans[k].pendingGroups[1]>>

\* the closures: <<scan, group>> for every group a scan closed
Closures ==
    {<<k, g>> \in (1..Len(grouper.scans)) \X (1..GroupTurns + 1) :
        g <= Len(grouper.scans[k].closed)}

\* C30: a group is closed only when the buffer holds at least the responses
\* it needs; closing it takes exactly that many entries from the front of
\* the buffer and emits one function turn holding those parts in the order
\* of the buffer; no group is closed twice.
C30_ClosedFromTheFrontOnce ==
    /\ \A k \in 1..Len(grouper.scans) :
          LET scan == grouper.scans[k]
          IN  scan.closed # <<>> =>
                LET needed == scan.closed[1].ResponsesNeeded
                IN  /\ Len(scan.closed) = 1
                    /\ Len(scan.collectedResponses) >= needed
                    /\ scan.left = SubSeq(scan.collectedResponses, needed + 1,
                                          Len(scan.collectedResponses))
                    /\ scan.emitted =
                          <<Content("function",
                                    SubSeq(scan.collectedResponses, 1, needed))>>
    /\ \A k \in 1..Len(grouper.scans) :
          grouper.scans[k].closed = <<>> =>
              /\ grouper.scans[k].emitted = <<>>
              /\ grouper.scans[k].left = grouper.scans[k].collectedResponses
    /\ \A c \in Closures : \A d \in Closures :
          grouper.scans[c[1]].closed[c[2]] = grouper.scans[d[1]].closed[d[2]]
              => c = d

\* a group of two calls closed with the first two of three responses
\* buffered, the third left in the buffer
C30_Witness ==
    \E k \in 1..Len(grouper.scans) :
        /\ grouper.scans[k].collectedResponses =
              <<Response("A"), Response("B"), Response("C")>>
        /\ Len(grouper.scans[k].closed) = 1
        /\ grouper.scans[k].closed[1].ResponsesNeeded = 2
        /\ grouper.scans[k].emitted =
              <<Content("function", <<Response("A"), Response("B")>>)>>
        /\ grouper.scans[k].left = <<Response("C")>>

\* taken step by step or at once, the grouper returns the same contents
GrouperAgrees ==
    grouper.pc = "done" => grouper.st.contents = fixCLIToolResponse(input.contents)

\* a turn without functionResponse part
NoResponseIn(value) == responsePartsIn(value) = <<>>

\* C31: the turns without functionResponse part that the grouper has read
\* are in its output, each once and as it came, in the order they came (the
\* other turns of the output are the grouping turns, which hold responses);
\* the model turn of a pending group is in the output, at the place the
\* group was created for.
C31_OtherTurnsKept ==
    /\ grouper.pc \in {"turn", "scan", "flush", "done"} =>
          SelectSeq(grouper.st.contents, NoResponseIn) =
              SelectSeq(SubSeq(input.contents, 1,
                               IF grouper.pc = "turn" THEN grouper.idx - 1
                               ELSE grouper.idx),
                        NoResponseIn)
    /\ \A g \in 1..Len(grouper.st.pendingGroups) :
          LET group == grouper.st.pendingGroups[g]
          IN  /\ group.place <= Len(grouper.st.contents)
              /\ grouper.st.contents[group.place].role = "model"
              /\ NumCalls(grouper.st.contents[group.place]) =
                    group.ResponsesNeeded
              /\ NoResponseIn(grouper.st.contents[group.place])

\* a call turn, a text turn and a response turn: the output is the call
\* turn, the text turn and the grouping turn
C31_Witness ==
    /\ grouper.pc = "done"
    /\ Len(input.contents) = 3
    /\ input.contents[1] = Content("model", <<FunctionCall("foo", NoId)>>)
    /\ input.contents[2] = Content("user", <<TextPart(<<"a">>)>>)
    /\ ~NoResponseIn(input.contents[3])
    /\ Len(grouper.st.contents) = 3
    /\ grouper.st.contents[1] = input.contents[1]
    /\ grouper.st.contents[2] = input.contents[2]
    /\ grouper.st.contents[3].role = "function"

\* the turns the grouper has gone through
TurnsRead ==
    SubSeq(input.contents, 1,
           IF grouper.pc = "idle" THEN 0
           ELSE IF grouper.pc = "turn" THEN grouper.idx - 1
           ELSE grouper.idx)

\* C32: the functionResponse parts of the grouper's output, read in order,
\* are the first of the functionResponse parts of its input, in the same
\* order: none comes twice or out of order, and the ones missing are the
\* last ones (those still in the buffer).
C32_ResponsesArePrefix ==
    grouper.pc # "error" =>
        /\ ResponsesIn(grouper.st.contents) \o grouper.st.collectedResponses =
              ResponsesIn(TurnsRead)
        /\ Len(ResponsesIn(grouper.st.contents)) <= Len(ResponsesIn(input.contents))
        /\ ResponsesIn(grouper.st.contents) =
              SubSeq(ResponsesIn(input.contents), 1,
                     Len(ResponsesIn(grouper.st.contents)))

\* three responses came in two turns for a group of two calls: the first
\* two are in the output, the third is missing
C32_Witness ==
    /\ grouper.pc = "done"
    /\ ResponsesIn(input.contents) =
          <<Response("A"), Response("B"), Response("C")>>
    /\ ResponsesIn(grouper.st.contents) = <<Response("A"), Response("B")>>

\* the groups still in pendingGroups that no scan has closed
NeverClosed ==
    {g \in 1..Len(grouper.st.pendingGroups) :
        \A k \in 1..Len(grouper.scans) :
            \A c \in 1..Len(grouper.scans[k].closed) :
                grouper.scans[k].closed[c] # grouper.st.pendingGroups[g]}

\* C33: when fixCLIToolResponse returns, every pending group that was never
\* closed needs more responses than are left in the buffer.
C33_NoSatisfiableGroupLeft ==
    grouper.pc = "done" =>
        \A g \in NeverClosed :
            grouper.st.pendingGroups[g].ResponsesNeeded
                > Len(grouper.st.collectedResponses)

\* the flush closed one group, and a group of two calls stays open with one
\* response left in the buffer
C33_Witness ==
    /\ grouper.pc = "done"
    /\ \E k \in Scans("flush") : grouper.scans[k].closed # <<>>
    /\ \E g \in NeverClosed :
          /\ grouper.st.pendingGroups[g].ResponsesNeeded = 2
          /\ Len(grouper.st.collectedResponses) = 1

\* C34: the grouper applied to the contents it returned returns them again.
C34_Idempotent ==
    grouper.pc = "done" =>
        fixCLIToolResponse(grouper.st.contents) = grouper.st.contents

\* the final flush closed no group
NothingFlushed == \A k \in Scans("flush") : grouper.scans[k].closed = <<>>

\* C34, amended: when the final flush closed no group, the grouper applied
\* to the contents it returned returns them again.
C34_IdempotentWithoutFlush ==
    (grouper.pc = "done" /\ NothingFlushed) =>
        fixCLIToolResponse(grouper.st.contents) = grouper.st.contents

\* a group closed by the scan of a response-bearing turn, its grouping turn
\* in the output, nothing flushed
C34_Witness ==
    /\ grouper.pc = "done"
    /\ NothingFlushed
    /\ \E k \in Scans("turn") : grouper.scans[k].closed # <<>>
    /\ \E t \in 1..Len(grouper.st.contents) :
          grouper.st.contents[t].role = "function"
    /\ fixCLIToolResponse(grouper.st.contents) = grouper.st.contents

----------------------------------------------------------------------------
(* The end of the conversation sent to a Claude model *)

\* C35: for a Claude model, the conversation ConvertGeminiRequestToAntigravity
\* returns does not end with a model turn without functionCall part.
C35_NoTrailingModelTurn ==
    (Translated /\ fn = "antigravity" /\ IsClaude(modelName)
        /\ output.contents # <<>>) =>
        LET lastContent == output.contents[Len(output.contents)]
        IN  ~(lastContent.role = "model" /\ NoCallIn(lastContent))

----------------------------------------------------------------------------
(* What the Tool-Call Linker writes *)

\* the part at a place of a conversation
PartAt(contents, at) == contents[at[1]].parts[at[2]]

\* C36: a functionCall or functionResponse part that arrives with a
\* non-empty id leaves the id walk with that id; the walk writes an id only
\* onto a part that had none, and changes neither the kind, the name nor the
\* payload of a part.
C36_LinkerKeepsIdsAndPayload ==
    Linked =>
        /\ Len(StageOut("link")) = Len(StageIn("link"))
        /\ \A i \in 1..Len(StageIn("link")) :
              /\ StageOut("link")[i].role = StageIn("link")[i].role
              /\ Len(StageOut("link")[i].parts) = Len(StageIn("link")[i].parts)
        /\ \A at \in PlacesOf(StageIn("link")) :
              LET before == PartAt(StageIn("link"), at)
                  after == PartAt(StageOut("link"), at)
              IN  /\ before.id # NoId => after.id = before.id
                  /\ after.id # before.id =>
                        /\ before.id = NoId
                        /\ HasFunctionCall(before) \/ HasFunctionResponse(before)
                  /\ after.kind = before.kind
                  /\ after.name = before.name
                  /\ after.text = before.text
                  /\ after.thought = before.thought

\* the walk met a call and a response that brought an id, and wrote an id
\* onto a call and onto a response that had none
C36_Witness ==
    /\ Linked
    /\ \E a, b, c, d \in PlacesOf(StageIn("link")) :
          /\ HasFunctionCall(PartAt(StageIn("link"), a))
          /\ PartAt(StageIn("link"), a).id # NoId
          /\ HasFunctionResponse(PartAt(StageIn("link"), b))
          /\ PartAt(StageIn("link"), b).id # NoId
          /\ HasFunctionCall(PartAt(StageIn("link"), c))
          /\ PartAt(StageIn("link"), c).id = NoId
          /\ PartAt(StageOut("link"), c).id # NoId
          /\ HasFunctionResponse(PartAt(StageIn("link"), d))
          /\ PartAt(StageIn("link"), d).id = NoId
          /\ PartAt(StageOut("link"), d).id # NoId

\* the conversation as far as the walk has read it on reaching a place
ReadBefore(contents, at) ==
    SubSeq(contents, 1, at[1] - 1)
        \o <<[contents[at[1]] EXCEPT !.parts = SubSeq(@, 1, at[2] - 1)]>>

\* the local maps of the walk on reaching a place, and on leaving it
LinkingBefore(at) ==
    LinkFrom(fn = "gemini", NewLinking(ReadBefore(StageIn("link"), at)),
             ReadBefore(StageIn("link"), at), 1, 1)

LinkingAfter(at) ==
    LinkPart(fn = "gemini",
             [LinkingBefore(at) EXCEPT !.contents = StageIn("link")],
             StageIn("link")[at[1]], at[1], at[2])

\* the responses the walk wrote an id onto
WrittenResponses ==
    {at \in PlacesOf(StageIn("link")) :
        /\ HasFunctionResponse(PartAt(StageIn("link"), at))
        /\ PartAt(StageIn("link"), at).id = NoId
        /\ PartAt(StageOut("link"), at).id # NoId}

\* the registry entry the walk looks up for a response without id
EntryOf(at) ==
    callKey(PartAt(StageIn("link"), at).name,
            Count(LinkingBefore(at).respCount, PartAt(StageIn("link"), at).name))

\* the calls whose reading put an entry into the registry
Registrars(key) ==
    {at \in PlacesOf(StageIn("link")) :
        /\ key \notin DOMAIN LinkingBefore(at).toolIDMap
        /\ key \in DOMAIN LinkingAfter(at).toolIDMap}

\* C37: within one request the id walk uses each registry entry (name,
\* ordinal) for at most one functionResponse part, and only for a response
\* of the function whose call made the entry: the id written onto a response
\* is the id of one call of the same name, and no two responses are written
\* from the same entry.
C37_EntryUsedOnceForItsName ==
    Linked =>
        /\ \A at \in WrittenResponses :
              /\ EntryOf(at) \in DOMAIN LinkingBefore(at).toolIDMap
              /\ PartAt(StageOut("link"), at).id =
                    LinkingBefore(at).toolIDMap[EntryOf(at)]
              /\ Cardinality(Registrars(EntryOf(at))) = 1
              /\ \A c \in Registrars(EntryOf(at)) :
                    /\ HasFunctionCall(PartAt(StageIn("link"), c))
                    /\ PartAt(StageIn("link"), c).name =
                          PartAt(StageIn("link"), at).name
                    /\ PartAt(StageOut("link"), c).id =
                          PartAt(StageOut("link"), at).id
        /\ \A a, b \in WrittenResponses : a # b => EntryOf(a) # EntryOf(b)

\* the walk wrote ids onto two responses, one of each of two functions
\* whose calls it had registered
C37_Witness ==
    /\ Linked
    /\ \E a, b \in WrittenResponses :
          /\ a # b
          /\ PartAt(StageIn("link"), a).name # PartAt(StageIn("link"), b).name
          /\ Registrars(EntryOf(a)) # Registrars(EntryOf(b))

----------------------------------------------------------------------------
(* The RefreshManager: starting and stopping *)

\* the refreshers of a world whose last call received is Start
RunningRefreshers(w) ==
    {r \in 1..Len(w.refreshers) :
        /\ w.refreshers[r].calls # <<>>
        /\ w.refreshers[r].calls[Len(w.refreshers[r].calls)].call = "Start"}

\* the background refresher is running
RunningIn(w) == RunningRefreshers(w) # {}

\* a body called Start, or Stop, on a refresher
CalledOnRefresher(e, name) ==
    \E r \in 1..Len(e.before.refreshers) :
        /\ Len(e.after.refreshers[r].calls) > Len(e.before.refreshers[r].calls)
        /\ e.after.refreshers[r].calls[Len(e.after.refreshers[r].calls)].call
              = name

Started(e) == CalledOnRefresher(e, "Start")

\* a body stopped the refresher or called a cancel function
Stopped(e) ==
    \/ CalledOnRefresher(e, "Stop")
    \/ \E c \in 1..Len(e.before.contexts) :
          e.after.contexts[c] # e.before.contexts[c]

\* C38: for any interleaving of Start and Stop calls the refresher is
\* started at most once between consecutive stops: every refresher receives
\* Start and Stop in turn, at most one is running, a Start while running
\* starts nothing and changes nothing, a Stop while not running cancels and
\* stops nothing, and IsRunning returns true exactly from a Start that
\* started the refresher until the next Stop.
C38_StartedOnceBetweenStops ==
    /\ \A r \in 1..Len(refreshers) :
          \A k \in 1..Len(refreshers[r].calls) :
              refreshers[r].calls[k].call =
                  IF k % 2 = 1 THEN "Start" ELSE "Stop"
    /\ Cardinality(RunningRefreshers(World)) <= 1
    /\ \A c \in 1..Len(contexts) : contexts[c] <= 1
    /\ rm.started = RunningIn(World)
    /\ \A i \in 1..Len(journal) :
          LET e == journal[i]
          IN  /\ (e.method = "Start" /\ RunningIn(e.before)) =>
                    e.after = e.before
              /\ (e.method = "Stop" /\ ~RunningIn(e.before)) =>
                    e.after = e.before
              /\ Started(e) => (e.method = "Start" /\ ~Stopped(e))
              /\ Stopped(e) =>
                    /\ e.method = "Stop"
                    /\ e.after.contexts =
                          [e.before.contexts EXCEPT
                              ![e.before.manager.cancel] = @ + 1]
              /\ (e.method = "Start" /\ ~RunningIn(e.before)
                    /\ e.before.manager.refresher # nil) =>
                    (Started(e) /\ RunningIn(e.after))
              /\ (e.method = "Stop" /\ RunningIn(e.before)) =>
                    (Stopped(e) /\ ~RunningIn(e.after))
              /\ e.method = "IsRunning" => e.ret = <<RunningIn(e.before)>>

\* Stop was called on the manager not running by one goroutine between
\* the Initialize and the Start of another's InitializeAndStart, which
\* started the refresher, and Start was then called on the running manager
C38_Witness ==
    /\ rm.started
    /\ \E i, j, k \in 1..Len(journal) :
          /\ 1 < i /\ i < j /\ j < k
          /\ journal[i].method = "Stop" /\ ~RunningIn(journal[i].before)
          /\ journal[i - 1].method = "Initialize"
          /\ journal[i - 1].caller # journal[i].caller
          /\ journal[j].caller = journal[i - 1].caller
          /\ Started(journal[j])
          /\ journal[k].method = "Start" /\ RunningIn(journal[k].before)

\* C39: in every reachable state started implies that a refresher exists
\* and a cancel function is set; Start on a manager without refresher
\* (Initialize never called, or called with an empty base directory) leaves
\* it not running, and Initialize on a running manager changes no field.
C39_StartedImpliesRefresher ==
    /\ rm.started => (rm.refresher # nil /\ rm.cancel # nil)
    /\ \A i \in 1..Len(journal) :
          LET e == journal[i]
          IN  /\ e.after.manager.started =>
                    /\ e.after.manager.refresher # nil
                    /\ e.after.manager.cancel # nil
              /\ (e.method = "Start" /\ e.before.manager.refresher = nil) =>
                    /\ e.after = e.before
                    /\ ~e.after.manager.started
              /\ (e.method = "Initialize" /\ e.before.manager.started) =>
                    e.after = e.before
              /\ e.before.manager.refresher = nil =>
                    \A j \in 1..(i - 1) :
                        journal[j].method = "Initialize" =>
                            \/ journal[j].baseDir = ""
                            \/ journal[j].before.manager.started

\* InitializeAndStart with an empty base directory left the manager not
\* running, a later one started it, and Initialize was then called on the
\* running manager
C39_Witness ==
    \E i, j, k \in 1..Len(journal) :
        /\ i < j /\ j < k
        /\ journal[i].call = "InitializeAndStart"
        /\ journal[i].method = "Start"
        /\ journal[i].before.manager.refresher = nil
        /\ Started(journal[j])
        /\ journal[k].method = "Initialize"
        /\ journal[k].baseDir # ""
        /\ journal[k].before.manager.started
====
